---------------------------- MODULE Spec2Model ----------------------------
(***************************************************************************)
(* Model of the classification pipeline of hotaruika-surge-classifier:     *)
(* the rule-based abundance estimators of app2.py .. app5.py, the remote   *)
(* adapter classify_comment_with_grok (app4.py, app5.py) and the main      *)
(* loop that feeds it.                                                      *)
(*                                                                         *)
(* A text is a sequence of characters.  A character is a one-element       *)
(* string: a printable ASCII character stands for itself, the tabulator,   *)
(* the newline, the form feed and the carriage return are written \t, \n,  *)
(* \f and \r, and any other character (the other control characters and   *)
(* the grave accent included) is named by its Unicode code point, "uXXXX"  *)
(* (so 匹 is "u5339" and ゼロ is <<"u30BC", "u30ED">>).  Every literal      *)
(* below carries the original text in the comment at the end of its line.  *)
(***************************************************************************)
EXTENDS Integers, Sequences, FiniteSets, TLC

(***************************************************************************)
(* Bounds of the model.                                                    *)
(***************************************************************************)
MaxWords == 2          \* words per generated comment
MaxPosts == 2          \* posts scraped in one run
MaxQuantity == 120     \* largest quantity fed to the threshold tables
MaxBatch == 2          \* records in a batch handed to the post-processing pass
MaxLen == 4            \* characters in a string handed to normalize_text

(***************************************************************************)
(* The six label strings.                                                  *)
(***************************************************************************)
NASHI       == <<"u306A", "u3057">>          \* なし        (none)
SUKUNAI     == <<"u5C11", "u306A", "u3044">>        \* 少ない      (few)
FUTSUU      == <<"u666E", "u901A">>          \* 普通        (moderate)
OOI         == <<"u591A", "u3044">>          \* 多い        (many)
HIJOUNI_OOI == <<"u975E", "u5E38", "u306B", "u591A", "u3044">>    \* 非常に多い  (veryMany)
FUMEI       == <<"u4E0D", "u660E">>          \* 不明        (unknown)
Labels == {NASHI, SUKUNAI, FUTSUU, OOI, HIJOUNI_OOI, FUMEI}

\* Python's None, rendered as the empty sequence: where a function of the model
\* may return None it never returns an empty list or an empty string
None == << >>

(***************************************************************************)
(* Python's Unicode database (Unicode 14.0.0): the character classes of    *)
(* the re module on str patterns, and the tables of unicodedata and of     *)
(* str.lower.                                                              *)
(***************************************************************************)
\* \d and int(): the decimal digits of Unicode, by value (DecimalDigits[1] are the zeros)
DecimalDigits ==
    << {"0", "u0660", "u06F0", "u07C0", "u0966", "u09E6", "u0A66", "u0AE6", "u0B66", "u0BE6", "u0C66",
         "u0CE6", "u0D66", "u0DE6", "u0E50", "u0ED0", "u0F20", "u1040", "u1090", "u17E0", "u1810", "u1946",
         "u19D0", "u1A80", "u1A90", "u1B50", "u1BB0", "u1C40", "u1C50", "uA620", "uA8D0", "uA900", "uA9D0",
         "uA9F0", "uAA50", "uABF0", "uFF10", "u104A0", "u10D30", "u11066", "u110F0", "u11136", "u111D0",
         "u112F0", "u11450", "u114D0", "u11650", "u116C0", "u11730", "u118E0", "u11950", "u11C50", "u11D50",
         "u11DA0", "u16A60", "u16AC0", "u16B50", "u1D7CE", "u1D7D8", "u1D7E2", "u1D7EC", "u1D7F6", "u1E140",
         "u1E2F0", "u1E950", "u1FBF0"},
       {"1", "u0661", "u06F1", "u07C1", "u0967", "u09E7", "u0A67", "u0AE7", "u0B67", "u0BE7", "u0C67",
         "u0CE7", "u0D67", "u0DE7", "u0E51", "u0ED1", "u0F21", "u1041", "u1091", "u17E1", "u1811", "u1947",
         "u19D1", "u1A81", "u1A91", "u1B51", "u1BB1", "u1C41", "u1C51", "uA621", "uA8D1", "uA901", "uA9D1",
         "uA9F1", "uAA51", "uABF1", "uFF11", "u104A1", "u10D31", "u11067", "u110F1", "u11137", "u111D1",
         "u112F1", "u11451", "u114D1", "u11651", "u116C1", "u11731", "u118E1", "u11951", "u11C51", "u11D51",
         "u11DA1", "u16A61", "u16AC1", "u16B51", "u1D7CF", "u1D7D9", "u1D7E3", "u1D7ED", "u1D7F7", "u1E141",
         "u1E2F1", "u1E951", "u1FBF1"},
       {"2", "u0662", "u06F2", "u07C2", "u0968", "u09E8", "u0A68", "u0AE8", "u0B68", "u0BE8", "u0C68",
         "u0CE8", "u0D68", "u0DE8", "u0E52", "u0ED2", "u0F22", "u1042", "u1092", "u17E2", "u1812", "u1948",
         "u19D2", "u1A82", "u1A92", "u1B52", "u1BB2", "u1C42", "u1C52", "uA622", "uA8D2", "uA902", "uA9D2",
         "uA9F2", "uAA52", "uABF2", "uFF12", "u104A2", "u10D32", "u11068", "u110F2", "u11138", "u111D2",
         "u112F2", "u11452", "u114D2", "u11652", "u116C2", "u11732", "u118E2", "u11952", "u11C52", "u11D52",
         "u11DA2", "u16A62", "u16AC2", "u16B52", "u1D7D0", "u1D7DA", "u1D7E4", "u1D7EE", "u1D7F8", "u1E142",
         "u1E2F2", "u1E952", "u1FBF2"},
       {"3", "u0663", "u06F3", "u07C3", "u0969", "u09E9", "u0A69", "u0AE9", "u0B69", "u0BE9", "u0C69",
         "u0CE9", "u0D69", "u0DE9", "u0E53", "u0ED3", "u0F23", "u1043", "u1093", "u17E3", "u1813", "u1949",
         "u19D3", "u1A83", "u1A93", "u1B53", "u1BB3", "u1C43", "u1C53", "uA623", "uA8D3", "uA903", "uA9D3",
         "uA9F3", "uAA53", "uABF3", "uFF13", "u104A3", "u10D33", "u11069", "u110F3", "u11139", "u111D3",
         "u112F3", "u11453", "u114D3", "u11653", "u116C3", "u11733", "u118E3", "u11953", "u11C53", "u11D53",
         "u11DA3", "u16A63", "u16AC3", "u16B53", "u1D7D1", "u1D7DB", "u1D7E5", "u1D7EF", "u1D7F9", "u1E143",
         "u1E2F3", "u1E953", "u1FBF3"},
       {"4", "u0664", "u06F4", "u07C4", "u096A", "u09EA", "u0A6A", "u0AEA", "u0B6A", "u0BEA", "u0C6A",
         "u0CEA", "u0D6A", "u0DEA", "u0E54", "u0ED4", "u0F24", "u1044", "u1094", "u17E4", "u1814", "u194A",
         "u19D4", "u1A84", "u1A94", "u1B54", "u1BB4", "u1C44", "u1C54", "uA624", "uA8D4", "uA904", "uA9D4",
         "uA9F4", "uAA54", "uABF4", "uFF14", "u104A4", "u10D34", "u1106A", "u110F4", "u1113A", "u111D4",
         "u112F4", "u11454", "u114D4", "u11654", "u116C4", "u11734", "u118E4", "u11954", "u11C54", "u11D54",
         "u11DA4", "u16A64", "u16AC4", "u16B54", "u1D7D2", "u1D7DC", "u1D7E6", "u1D7F0", "u1D7FA", "u1E144",
         "u1E2F4", "u1E954", "u1FBF4"},
       {"5", "u0665", "u06F5", "u07C5", "u096B", "u09EB", "u0A6B", "u0AEB", "u0B6B", "u0BEB", "u0C6B",
         "u0CEB", "u0D6B", "u0DEB", "u0E55", "u0ED5", "u0F25", "u1045", "u1095", "u17E5", "u1815", "u194B",
         "u19D5", "u1A85", "u1A95", "u1B55", "u1BB5", "u1C45", "u1C55", "uA625", "uA8D5", "uA905", "uA9D5",
         "uA9F5", "uAA55", "uABF5", "uFF15", "u104A5", "u10D35", "u1106B", "u110F5", "u1113B", "u111D5",
         "u112F5", "u11455", "u114D5", "u11655", "u116C5", "u11735", "u118E5", "u11955", "u11C55", "u11D55",
         "u11DA5", "u16A65", "u16AC5", "u16B55", "u1D7D3", "u1D7DD", "u1D7E7", "u1D7F1", "u1D7FB", "u1E145",
         "u1E2F5", "u1E955", "u1FBF5"},
       {"6", "u0666", "u06F6", "u07C6", "u096C", "u09EC", "u0A6C", "u0AEC", "u0B6C", "u0BEC", "u0C6C",
         "u0CEC", "u0D6C", "u0DEC", "u0E56", "u0ED6", "u0F26", "u1046", "u1096", "u17E6", "u1816", "u194C",
         "u19D6", "u1A86", "u1A96", "u1B56", "u1BB6", "u1C46", "u1C56", "uA626", "uA8D6", "uA906", "uA9D6",
         "uA9F6", "uAA56", "uABF6", "uFF16", "u104A6", "u10D36", "u1106C", "u110F6", "u1113C", "u111D6",
         "u112F6", "u11456", "u114D6", "u11656", "u116C6", "u11736", "u118E6", "u11956", "u11C56", "u11D56",
         "u11DA6", "u16A66", "u16AC6", "u16B56", "u1D7D4", "u1D7DE", "u1D7E8", "u1D7F2", "u1D7FC", "u1E146",
         "u1E2F6", "u1E956", "u1FBF6"},
       {"7", "u0667", "u06F7", "u07C7", "u096D", "u09ED", "u0A6D", "u0AED", "u0B6D", "u0BED", "u0C6D",
         "u0CED", "u0D6D", "u0DED", "u0E57", "u0ED7", "u0F27", "u1047", "u1097", "u17E7", "u1817", "u194D",
         "u19D7", "u1A87", "u1A97", "u1B57", "u1BB7", "u1C47", "u1C57", "uA627", "uA8D7", "uA907", "uA9D7",
         "uA9F7", "uAA57", "uABF7", "uFF17", "u104A7", "u10D37", "u1106D", "u110F7", "u1113D", "u111D7",
         "u112F7", "u11457", "u114D7", "u11657", "u116C7", "u11737", "u118E7", "u11957", "u11C57", "u11D57",
         "u11DA7", "u16A67", "u16AC7", "u16B57", "u1D7D5", "u1D7DF", "u1D7E9", "u1D7F3", "u1D7FD", "u1E147",
         "u1E2F7", "u1E957", "u1FBF7"},
       {"8", "u0668", "u06F8", "u07C8", "u096E", "u09EE", "u0A6E", "u0AEE", "u0B6E", "u0BEE", "u0C6E",
         "u0CEE", "u0D6E", "u0DEE", "u0E58", "u0ED8", "u0F28", "u1048", "u1098", "u17E8", "u1818", "u194E",
         "u19D8", "u1A88", "u1A98", "u1B58", "u1BB8", "u1C48", "u1C58", "uA628", "uA8D8", "uA908", "uA9D8",
         "uA9F8", "uAA58", "uABF8", "uFF18", "u104A8", "u10D38", "u1106E", "u110F8", "u1113E", "u111D8",
         "u112F8", "u11458", "u114D8", "u11658", "u116C8", "u11738", "u118E8", "u11958", "u11C58", "u11D58",
         "u11DA8", "u16A68", "u16AC8", "u16B58", "u1D7D6", "u1D7E0", "u1D7EA", "u1D7F4", "u1D7FE", "u1E148",
         "u1E2F8", "u1E958", "u1FBF8"},
       {"9", "u0669", "u06F9", "u07C9", "u096F", "u09EF", "u0A6F", "u0AEF", "u0B6F", "u0BEF", "u0C6F",
         "u0CEF", "u0D6F", "u0DEF", "u0E59", "u0ED9", "u0F29", "u1049", "u1099", "u17E9", "u1819", "u194F",
         "u19D9", "u1A89", "u1A99", "u1B59", "u1BB9", "u1C49", "u1C59", "uA629", "uA8D9", "uA909", "uA9D9",
         "uA9F9", "uAA59", "uABF9", "uFF19", "u104A9", "u10D39", "u1106F", "u110F9", "u1113F", "u111D9",
         "u112F9", "u11459", "u114D9", "u11659", "u116C9", "u11739", "u118E9", "u11959", "u11C59", "u11D59",
         "u11DA9", "u16A69", "u16AC9", "u16B59", "u1D7D7", "u1D7E1", "u1D7EB", "u1D7F5", "u1D7FF", "u1E149",
         "u1E2F9", "u1E959", "u1FBF9"} >>

\* \s and str.strip(): the white space of Unicode
IsSpace(c) ==
    c \in {"\t", "\n", "u000B", "\f", "\r", "u001C", "u001D", "u001E", "u001F", " ", "u0085", "u00A0", "u1680",
          "u2000", "u2001", "u2002", "u2003", "u2004", "u2005", "u2006", "u2007", "u2008", "u2009", "u200A",
          "u2028", "u2029", "u202F", "u205F", "u3000"}

\* unicodedata: the full compatibility decomposition of the characters that have one
\* (the Hangul syllables are not listed: they are composed of their jamo below), the
\* canonical combining class of the characters whose class is not 0, and, for a
\* character that composes, the starters it composes with and the primary composites
unicodedata ==
    [decomposition |->
        [u00A0 |-> <<" ">>, u00A8 |-> <<" ", "u0308">>, u00AA |-> <<"a">>, u00AF |-> <<" ", "u0304">>,
         u00B2 |-> <<"2">>, u00B3 |-> <<"3">>, u00B4 |-> <<" ", "u0301">>, u00B5 |-> <<"u03BC">>,
         u00B8 |-> <<" ", "u0327">>, u00B9 |-> <<"1">>, u00BA |-> <<"o">>, u00BC |-> <<"1", "u2044", "4">>,
         u00BD |-> <<"1", "u2044", "2">>, u00BE |-> <<"3", "u2044", "4">>, u00C0 |-> <<"A", "u0300">>,
         u00C1 |-> <<"A", "u0301">>, u00C2 |-> <<"A", "u0302">>, u00C3 |-> <<"A", "u0303">>,
         u00C4 |-> <<"A", "u0308">>, u00C5 |-> <<"A", "u030A">>, u00C7 |-> <<"C", "u0327">>,
         u00C8 |-> <<"E", "u0300">>, u00C9 |-> <<"E", "u0301">>, u00CA |-> <<"E", "u0302">>,
         u00CB |-> <<"E", "u0308">>, u00CC |-> <<"I", "u0300">>, u00CD |-> <<"I", "u0301">>,
         u00CE |-> <<"I", "u0302">>, u00CF |-> <<"I", "u0308">>, u00D1 |-> <<"N", "u0303">>,
         u00D2 |-> <<"O", "u0300">>, u00D3 |-> <<"O", "u0301">>, u00D4 |-> <<"O", "u0302">>,
         u00D5 |-> <<"O", "u0303">>, u00D6 |-> <<"O", "u0308">>, u00D9 |-> <<"U", "u0300">>,
         u00DA |-> <<"U", "u0301">>, u00DB |-> <<"U", "u0302">>, u00DC |-> <<"U", "u0308">>,
         u00DD |-> <<"Y", "u0301">>, u00E0 |-> <<"a", "u0300">>, u00E1 |-> <<"a", "u0301">>,
         u00E2 |-> <<"a", "u0302">>, u00E3 |-> <<"a", "u0303">>, u00E4 |-> <<"a", "u0308">>,
         u00E5 |-> <<"a", "u030A">>, u00E7 |-> <<"c", "u0327">>, u00E8 |-> <<"e", "u0300">>,
         u00E9 |-> <<"e", "u0301">>, u00EA |-> <<"e", "u0302">>, u00EB |-> <<"e", "u0308">>,
         u00EC |-> <<"i", "u0300">>, u00ED |-> <<"i", "u0301">>, u00EE |-> <<"i", "u0302">>,
         u00EF |-> <<"i", "u0308">>, u00F1 |-> <<"n", "u0303">>, u00F2 |-> <<"o", "u0300">>,
         u00F3 |-> <<"o", "u0301">>, u00F4 |-> <<"o", "u0302">>, u00F5 |-> <<"o", "u0303">>,
         u00F6 |-> <<"o", "u0308">>, u00F9 |-> <<"u", "u0300">>, u00FA |-> <<"u", "u0301">>,
         u00FB |-> <<"u", "u0302">>, u00FC |-> <<"u", "u0308">>, u00FD |-> <<"y", "u0301">>,
         u00FF |-> <<"y", "u0308">>, u0100 |-> <<"A", "u0304">>, u0101 |-> <<"a", "u0304">>,
         u0102 |-> <<"A", "u0306">>, u0103 |-> <<"a", "u0306">>, u0104 |-> <<"A", "u0328">>,
         u0105 |-> <<"a", "u0328">>, u0106 |-> <<"C", "u0301">>, u0107 |-> <<"c", "u0301">>,
         u0108 |-> <<"C", "u0302">>, u0109 |-> <<"c", "u0302">>, u010A |-> <<"C", "u0307">>,
         u010B |-> <<"c", "u0307">>, u010C |-> <<"C", "u030C">>, u010D |-> <<"c", "u030C">>,
         u010E |-> <<"D", "u030C">>, u010F |-> <<"d", "u030C">>, u0112 |-> <<"E", "u0304">>,
         u0113 |-> <<"e", "u0304">>, u0114 |-> <<"E", "u0306">>, u0115 |-> <<"e", "u0306">>,
         u0116 |-> <<"E", "u0307">>, u0117 |-> <<"e", "u0307">>, u0118 |-> <<"E", "u0328">>,
         u0119 |-> <<"e", "u0328">>, u011A |-> <<"E", "u030C">>, u011B |-> <<"e", "u030C">>,
         u011C |-> <<"G", "u0302">>, u011D |-> <<"g", "u0302">>, u011E |-> <<"G", "u0306">>,
         u011F |-> <<"g", "u0306">>, u0120 |-> <<"G", "u0307">>, u0121 |-> <<"g", "u0307">>,
         u0122 |-> <<"G", "u0327">>, u0123 |-> <<"g", "u0327">>, u0124 |-> <<"H", "u0302">>,
         u0125 |-> <<"h", "u0302">>, u0128 |-> <<"I", "u0303">>, u0129 |-> <<"i", "u0303">>,
         u012A |-> <<"I", "u0304">>, u012B |-> <<"i", "u0304">>, u012C |-> <<"I", "u0306">>,
         u012D |-> <<"i", "u0306">>, u012E |-> <<"I", "u0328">>, u012F |-> <<"i", "u0328">>,
         u0130 |-> <<"I", "u0307">>, u0132 |-> <<"I", "J">>, u0133 |-> <<"i", "j">>,
         u0134 |-> <<"J", "u0302">>, u0135 |-> <<"j", "u0302">>, u0136 |-> <<"K", "u0327">>,
         u0137 |-> <<"k", "u0327">>, u0139 |-> <<"L", "u0301">>, u013A |-> <<"l", "u0301">>,
         u013B |-> <<"L", "u0327">>, u013C |-> <<"l", "u0327">>, u013D |-> <<"L", "u030C">>,
         u013E |-> <<"l", "u030C">>, u013F |-> <<"L", "u00B7">>, u0140 |-> <<"l", "u00B7">>,
         u0143 |-> <<"N", "u0301">>, u0144 |-> <<"n", "u0301">>, u0145 |-> <<"N", "u0327">>,
         u0146 |-> <<"n", "u0327">>, u0147 |-> <<"N", "u030C">>, u0148 |-> <<"n", "u030C">>,
         u0149 |-> <<"u02BC", "n">>, u014C |-> <<"O", "u0304">>, u014D |-> <<"o", "u0304">>,
         u014E |-> <<"O", "u0306">>, u014F |-> <<"o", "u0306">>, u0150 |-> <<"O", "u030B">>,
         u0151 |-> <<"o", "u030B">>, u0154 |-> <<"R", "u0301">>, u0155 |-> <<"r", "u0301">>,
         u0156 |-> <<"R", "u0327">>, u0157 |-> <<"r", "u0327">>, u0158 |-> <<"R", "u030C">>,
         u0159 |-> <<"r", "u030C">>, u015A |-> <<"S", "u0301">>, u015B |-> <<"s", "u0301">>,
         u015C |-> <<"S", "u0302">>, u015D |-> <<"s", "u0302">>, u015E |-> <<"S", "u0327">>,
         u015F |-> <<"s", "u0327">>, u0160 |-> <<"S", "u030C">>, u0161 |-> <<"s", "u030C">>,
         u0162 |-> <<"T", "u0327">>, u0163 |-> <<"t", "u0327">>, u0164 |-> <<"T", "u030C">>,
         u0165 |-> <<"t", "u030C">>, u0168 |-> <<"U", "u0303">>, u0169 |-> <<"u", "u0303">>,
         u016A |-> <<"U", "u0304">>, u016B |-> <<"u", "u0304">>, u016C |-> <<"U", "u0306">>,
         u016D |-> <<"u", "u0306">>, u016E |-> <<"U", "u030A">>, u016F |-> <<"u", "u030A">>,
         u0170 |-> <<"U", "u030B">>, u0171 |-> <<"u", "u030B">>, u0172 |-> <<"U", "u0328">>,
         u0173 |-> <<"u", "u0328">>, u0174 |-> <<"W", "u0302">>, u0175 |-> <<"w", "u0302">>,
         u0176 |-> <<"Y", "u0302">>, u0177 |-> <<"y", "u0302">>, u0178 |-> <<"Y", "u0308">>,
         u0179 |-> <<"Z", "u0301">>, u017A |-> <<"z", "u0301">>, u017B |-> <<"Z", "u0307">>,
         u017C |-> <<"z", "u0307">>, u017D |-> <<"Z", "u030C">>, u017E |-> <<"z", "u030C">>,
         u017F |-> <<"s">>, u01A0 |-> <<"O", "u031B">>, u01A1 |-> <<"o", "u031B">>,
         u01AF |-> <<"U", "u031B">>, u01B0 |-> <<"u", "u031B">>, u01C4 |-> <<"D", "Z", "u030C">>,
         u01C5 |-> <<"D", "z", "u030C">>, u01C6 |-> <<"d", "z", "u030C">>, u01C7 |-> <<"L", "J">>,
         u01C8 |-> <<"L", "j">>, u01C9 |-> <<"l", "j">>, u01CA |-> <<"N", "J">>, u01CB |-> <<"N", "j">>,
         u01CC |-> <<"n", "j">>, u01CD |-> <<"A", "u030C">>, u01CE |-> <<"a", "u030C">>,
         u01CF |-> <<"I", "u030C">>, u01D0 |-> <<"i", "u030C">>, u01D1 |-> <<"O", "u030C">>,
         u01D2 |-> <<"o", "u030C">>, u01D3 |-> <<"U", "u030C">>, u01D4 |-> <<"u", "u030C">>,
         u01D5 |-> <<"U", "u0308", "u0304">>, u01D6 |-> <<"u", "u0308", "u0304">>,
         u01D7 |-> <<"U", "u0308", "u0301">>, u01D8 |-> <<"u", "u0308", "u0301">>,
         u01D9 |-> <<"U", "u0308", "u030C">>, u01DA |-> <<"u", "u0308", "u030C">>,
         u01DB |-> <<"U", "u0308", "u0300">>, u01DC |-> <<"u", "u0308", "u0300">>,
         u01DE |-> <<"A", "u0308", "u0304">>, u01DF |-> <<"a", "u0308", "u0304">>,
         u01E0 |-> <<"A", "u0307", "u0304">>, u01E1 |-> <<"a", "u0307", "u0304">>,
         u01E2 |-> <<"u00C6", "u0304">>, u01E3 |-> <<"u00E6", "u0304">>, u01E6 |-> <<"G", "u030C">>,
         u01E7 |-> <<"g", "u030C">>, u01E8 |-> <<"K", "u030C">>, u01E9 |-> <<"k", "u030C">>,
         u01EA |-> <<"O", "u0328">>, u01EB |-> <<"o", "u0328">>, u01EC |-> <<"O", "u0328", "u0304">>,
         u01ED |-> <<"o", "u0328", "u0304">>, u01EE |-> <<"u01B7", "u030C">>, u01EF |-> <<"u0292", "u030C">>,
         u01F0 |-> <<"j", "u030C">>, u01F1 |-> <<"D", "Z">>, u01F2 |-> <<"D", "z">>, u01F3 |-> <<"d", "z">>,
         u01F4 |-> <<"G", "u0301">>, u01F5 |-> <<"g", "u0301">>, u01F8 |-> <<"N", "u0300">>,
         u01F9 |-> <<"n", "u0300">>, u01FA |-> <<"A", "u030A", "u0301">>, u01FB |-> <<"a", "u030A", "u0301">>,
         u01FC |-> <<"u00C6", "u0301">>, u01FD |-> <<"u00E6", "u0301">>, u01FE |-> <<"u00D8", "u0301">>,
         u01FF |-> <<"u00F8", "u0301">>, u0200 |-> <<"A", "u030F">>, u0201 |-> <<"a", "u030F">>,
         u0202 |-> <<"A", "u0311">>, u0203 |-> <<"a", "u0311">>, u0204 |-> <<"E", "u030F">>,
         u0205 |-> <<"e", "u030F">>, u0206 |-> <<"E", "u0311">>, u0207 |-> <<"e", "u0311">>,
         u0208 |-> <<"I", "u030F">>, u0209 |-> <<"i", "u030F">>, u020A |-> <<"I", "u0311">>,
         u020B |-> <<"i", "u0311">>, u020C |-> <<"O", "u030F">>, u020D |-> <<"o", "u030F">>,
         u020E |-> <<"O", "u0311">>, u020F |-> <<"o", "u0311">>, u0210 |-> <<"R", "u030F">>,
         u0211 |-> <<"r", "u030F">>, u0212 |-> <<"R", "u0311">>, u0213 |-> <<"r", "u0311">>,
         u0214 |-> <<"U", "u030F">>, u0215 |-> <<"u", "u030F">>, u0216 |-> <<"U", "u0311">>,
         u0217 |-> <<"u", "u0311">>, u0218 |-> <<"S", "u0326">>, u0219 |-> <<"s", "u0326">>,
         u021A |-> <<"T", "u0326">>, u021B |-> <<"t", "u0326">>, u021E |-> <<"H", "u030C">>,
         u021F |-> <<"h", "u030C">>, u0226 |-> <<"A", "u0307">>, u0227 |-> <<"a", "u0307">>,
         u0228 |-> <<"E", "u0327">>, u0229 |-> <<"e", "u0327">>, u022A |-> <<"O", "u0308", "u0304">>,
         u022B |-> <<"o", "u0308", "u0304">>, u022C |-> <<"O", "u0303", "u0304">>,
         u022D |-> <<"o", "u0303", "u0304">>, u022E |-> <<"O", "u0307">>, u022F |-> <<"o", "u0307">>,
         u0230 |-> <<"O", "u0307", "u0304">>, u0231 |-> <<"o", "u0307", "u0304">>, u0232 |-> <<"Y", "u0304">>,
         u0233 |-> <<"y", "u0304">>, u02B0 |-> <<"h">>, u02B1 |-> <<"u0266">>, u02B2 |-> <<"j">>,
         u02B3 |-> <<"r">>, u02B4 |-> <<"u0279">>, u02B5 |-> <<"u027B">>, u02B6 |-> <<"u0281">>,
         u02B7 |-> <<"w">>, u02B8 |-> <<"y">>, u02D8 |-> <<" ", "u0306">>, u02D9 |-> <<" ", "u0307">>,
         u02DA |-> <<" ", "u030A">>, u02DB |-> <<" ", "u0328">>, u02DC |-> <<" ", "u0303">>,
         u02DD |-> <<" ", "u030B">>, u02E0 |-> <<"u0263">>, u02E1 |-> <<"l">>, u02E2 |-> <<"s">>,
         u02E3 |-> <<"x">>, u02E4 |-> <<"u0295">>, u0340 |-> <<"u0300">>, u0341 |-> <<"u0301">>,
         u0343 |-> <<"u0313">>, u0344 |-> <<"u0308", "u0301">>, u0374 |-> <<"u02B9">>,
         u037A |-> <<" ", "u0345">>, u037E |-> <<";">>, u0384 |-> <<" ", "u0301">>,
         u0385 |-> <<" ", "u0308", "u0301">>, u0386 |-> <<"u0391", "u0301">>, u0387 |-> <<"u00B7">>,
         u0388 |-> <<"u0395", "u0301">>, u0389 |-> <<"u0397", "u0301">>, u038A |-> <<"u0399", "u0301">>,
         u038C |-> <<"u039F", "u0301">>, u038E |-> <<"u03A5", "u0301">>, u038F |-> <<"u03A9", "u0301">>,
         u0390 |-> <<"u03B9", "u0308", "u0301">>, u03AA |-> <<"u0399", "u0308">>,
         u03AB |-> <<"u03A5", "u0308">>, u03AC |-> <<"u03B1", "u0301">>, u03AD |-> <<"u03B5", "u0301">>,
         u03AE |-> <<"u03B7", "u0301">>, u03AF |-> <<"u03B9", "u0301">>,
         u03B0 |-> <<"u03C5", "u0308", "u0301">>, u03CA |-> <<"u03B9", "u0308">>,
         u03CB |-> <<"u03C5", "u0308">>, u03CC |-> <<"u03BF", "u0301">>, u03CD |-> <<"u03C5", "u0301">>,
         u03CE |-> <<"u03C9", "u0301">>, u03D0 |-> <<"u03B2">>, u03D1 |-> <<"u03B8">>, u03D2 |-> <<"u03A5">>,
         u03D3 |-> <<"u03A5", "u0301">>, u03D4 |-> <<"u03A5", "u0308">>, u03D5 |-> <<"u03C6">>,
         u03D6 |-> <<"u03C0">>, u03F0 |-> <<"u03BA">>, u03F1 |-> <<"u03C1">>, u03F2 |-> <<"u03C2">>,
         u03F4 |-> <<"u0398">>, u03F5 |-> <<"u03B5">>, u03F9 |-> <<"u03A3">>, u0400 |-> <<"u0415", "u0300">>,
         u0401 |-> <<"u0415", "u0308">>, u0403 |-> <<"u0413", "u0301">>, u0407 |-> <<"u0406", "u0308">>,
         u040C |-> <<"u041A", "u0301">>, u040D |-> <<"u0418", "u0300">>, u040E |-> <<"u0423", "u0306">>,
         u0419 |-> <<"u0418", "u0306">>, u0439 |-> <<"u0438", "u0306">>, u0450 |-> <<"u0435", "u0300">>,
         u0451 |-> <<"u0435", "u0308">>, u0453 |-> <<"u0433", "u0301">>, u0457 |-> <<"u0456", "u0308">>,
         u045C |-> <<"u043A", "u0301">>, u045D |-> <<"u0438", "u0300">>, u045E |-> <<"u0443", "u0306">>,
         u0476 |-> <<"u0474", "u030F">>, u0477 |-> <<"u0475", "u030F">>, u04C1 |-> <<"u0416", "u0306">>,
         u04C2 |-> <<"u0436", "u0306">>, u04D0 |-> <<"u0410", "u0306">>, u04D1 |-> <<"u0430", "u0306">>,
         u04D2 |-> <<"u0410", "u0308">>, u04D3 |-> <<"u0430", "u0308">>, u04D6 |-> <<"u0415", "u0306">>,
         u04D7 |-> <<"u0435", "u0306">>, u04DA |-> <<"u04D8", "u0308">>, u04DB |-> <<"u04D9", "u0308">>,
         u04DC |-> <<"u0416", "u0308">>, u04DD |-> <<"u0436", "u0308">>, u04DE |-> <<"u0417", "u0308">>,
         u04DF |-> <<"u0437", "u0308">>, u04E2 |-> <<"u0418", "u0304">>, u04E3 |-> <<"u0438", "u0304">>,
         u04E4 |-> <<"u0418", "u0308">>, u04E5 |-> <<"u0438", "u0308">>, u04E6 |-> <<"u041E", "u0308">>,
         u04E7 |-> <<"u043E", "u0308">>, u04EA |-> <<"u04E8", "u0308">>, u04EB |-> <<"u04E9", "u0308">>,
         u04EC |-> <<"u042D", "u0308">>, u04ED |-> <<"u044D", "u0308">>, u04EE |-> <<"u0423", "u0304">>,
         u04EF |-> <<"u0443", "u0304">>, u04F0 |-> <<"u0423", "u0308">>, u04F1 |-> <<"u0443", "u0308">>,
         u04F2 |-> <<"u0423", "u030B">>, u04F3 |-> <<"u0443", "u030B">>, u04F4 |-> <<"u0427", "u0308">>,
         u04F5 |-> <<"u0447", "u0308">>, u04F8 |-> <<"u042B", "u0308">>, u04F9 |-> <<"u044B", "u0308">>,
         u0587 |-> <<"u0565", "u0582">>, u0622 |-> <<"u0627", "u0653">>, u0623 |-> <<"u0627", "u0654">>,
         u0624 |-> <<"u0648", "u0654">>, u0625 |-> <<"u0627", "u0655">>, u0626 |-> <<"u064A", "u0654">>,
         u0675 |-> <<"u0627", "u0674">>, u0676 |-> <<"u0648", "u0674">>, u0677 |-> <<"u06C7", "u0674">>,
         u0678 |-> <<"u064A", "u0674">>, u06C0 |-> <<"u06D5", "u0654">>, u06C2 |-> <<"u06C1", "u0654">>,
         u06D3 |-> <<"u06D2", "u0654">>, u0929 |-> <<"u0928", "u093C">>, u0931 |-> <<"u0930", "u093C">>,
         u0934 |-> <<"u0933", "u093C">>, u0958 |-> <<"u0915", "u093C">>, u0959 |-> <<"u0916", "u093C">>,
         u095A |-> <<"u0917", "u093C">>, u095B |-> <<"u091C", "u093C">>, u095C |-> <<"u0921", "u093C">>,
         u095D |-> <<"u0922", "u093C">>, u095E |-> <<"u092B", "u093C">>, u095F |-> <<"u092F", "u093C">>,
         u09CB |-> <<"u09C7", "u09BE">>, u09CC |-> <<"u09C7", "u09D7">>, u09DC |-> <<"u09A1", "u09BC">>,
         u09DD |-> <<"u09A2", "u09BC">>, u09DF |-> <<"u09AF", "u09BC">>, u0A33 |-> <<"u0A32", "u0A3C">>,
         u0A36 |-> <<"u0A38", "u0A3C">>, u0A59 |-> <<"u0A16", "u0A3C">>, u0A5A |-> <<"u0A17", "u0A3C">>,
         u0A5B |-> <<"u0A1C", "u0A3C">>, u0A5E |-> <<"u0A2B", "u0A3C">>, u0B48 |-> <<"u0B47", "u0B56">>,
         u0B4B |-> <<"u0B47", "u0B3E">>, u0B4C |-> <<"u0B47", "u0B57">>, u0B5C |-> <<"u0B21", "u0B3C">>,
         u0B5D |-> <<"u0B22", "u0B3C">>, u0B94 |-> <<"u0B92", "u0BD7">>, u0BCA |-> <<"u0BC6", "u0BBE">>,
         u0BCB |-> <<"u0BC7", "u0BBE">>, u0BCC |-> <<"u0BC6", "u0BD7">>, u0C48 |-> <<"u0C46", "u0C56">>,
         u0CC0 |-> <<"u0CBF", "u0CD5">>, u0CC7 |-> <<"u0CC6", "u0CD5">>, u0CC8 |-> <<"u0CC6", "u0CD6">>,
         u0CCA |-> <<"u0CC6", "u0CC2">>, u0CCB |-> <<"u0CC6", "u0CC2", "u0CD5">>,
         u0D4A |-> <<"u0D46", "u0D3E">>, u0D4B |-> <<"u0D47", "u0D3E">>, u0D4C |-> <<"u0D46", "u0D57">>,
         u0DDA |-> <<"u0DD9", "u0DCA">>, u0DDC |-> <<"u0DD9", "u0DCF">>,
         u0DDD |-> <<"u0DD9", "u0DCF", "u0DCA">>, u0DDE |-> <<"u0DD9", "u0DDF">>,
         u0E33 |-> <<"u0E4D", "u0E32">>, u0EB3 |-> <<"u0ECD", "u0EB2">>, u0EDC |-> <<"u0EAB", "u0E99">>,
         u0EDD |-> <<"u0EAB", "u0EA1">>, u0F0C |-> <<"u0F0B">>, u0F43 |-> <<"u0F42", "u0FB7">>,
         u0F4D |-> <<"u0F4C", "u0FB7">>, u0F52 |-> <<"u0F51", "u0FB7">>, u0F57 |-> <<"u0F56", "u0FB7">>,
         u0F5C |-> <<"u0F5B", "u0FB7">>, u0F69 |-> <<"u0F40", "u0FB5">>, u0F73 |-> <<"u0F71", "u0F72">>,
         u0F75 |-> <<"u0F71", "u0F74">>, u0F76 |-> <<"u0FB2", "u0F80">>,
         u0F77 |-> <<"u0FB2", "u0F71", "u0F80">>, u0F78 |-> <<"u0FB3", "u0F80">>,
         u0F79 |-> <<"u0FB3", "u0F71", "u0F80">>, u0F81 |-> <<"u0F71", "u0F80">>,
         u0F93 |-> <<"u0F92", "u0FB7">>, u0F9D |-> <<"u0F9C", "u0FB7">>, u0FA2 |-> <<"u0FA1", "u0FB7">>,
         u0FA7 |-> <<"u0FA6", "u0FB7">>, u0FAC |-> <<"u0FAB", "u0FB7">>, u0FB9 |-> <<"u0F90", "u0FB5">>,
         u1026 |-> <<"u1025", "u102E">>, u10FC |-> <<"u10DC">>, u1B06 |-> <<"u1B05", "u1B35">>,
         u1B08 |-> <<"u1B07", "u1B35">>, u1B0A |-> <<"u1B09", "u1B35">>, u1B0C |-> <<"u1B0B", "u1B35">>,
         u1B0E |-> <<"u1B0D", "u1B35">>, u1B12 |-> <<"u1B11", "u1B35">>, u1B3B |-> <<"u1B3A", "u1B35">>,
         u1B3D |-> <<"u1B3C", "u1B35">>, u1B40 |-> <<"u1B3E", "u1B35">>, u1B41 |-> <<"u1B3F", "u1B35">>,
         u1B43 |-> <<"u1B42", "u1B35">>, u1D2C |-> <<"A">>, u1D2D |-> <<"u00C6">>, u1D2E |-> <<"B">>,
         u1D30 |-> <<"D">>, u1D31 |-> <<"E">>, u1D32 |-> <<"u018E">>, u1D33 |-> <<"G">>, u1D34 |-> <<"H">>,
         u1D35 |-> <<"I">>, u1D36 |-> <<"J">>, u1D37 |-> <<"K">>, u1D38 |-> <<"L">>, u1D39 |-> <<"M">>,
         u1D3A |-> <<"N">>, u1D3C |-> <<"O">>, u1D3D |-> <<"u0222">>, u1D3E |-> <<"P">>, u1D3F |-> <<"R">>,
         u1D40 |-> <<"T">>, u1D41 |-> <<"U">>, u1D42 |-> <<"W">>, u1D43 |-> <<"a">>, u1D44 |-> <<"u0250">>,
         u1D45 |-> <<"u0251">>, u1D46 |-> <<"u1D02">>, u1D47 |-> <<"b">>, u1D48 |-> <<"d">>,
         u1D49 |-> <<"e">>, u1D4A |-> <<"u0259">>, u1D4B |-> <<"u025B">>, u1D4C |-> <<"u025C">>,
         u1D4D |-> <<"g">>, u1D4F |-> <<"k">>, u1D50 |-> <<"m">>, u1D51 |-> <<"u014B">>, u1D52 |-> <<"o">>,
         u1D53 |-> <<"u0254">>, u1D54 |-> <<"u1D16">>, u1D55 |-> <<"u1D17">>, u1D56 |-> <<"p">>,
         u1D57 |-> <<"t">>, u1D58 |-> <<"u">>, u1D59 |-> <<"u1D1D">>, u1D5A |-> <<"u026F">>,
         u1D5B |-> <<"v">>, u1D5C |-> <<"u1D25">>, u1D5D |-> <<"u03B2">>, u1D5E |-> <<"u03B3">>,
         u1D5F |-> <<"u03B4">>, u1D60 |-> <<"u03C6">>, u1D61 |-> <<"u03C7">>, u1D62 |-> <<"i">>,
         u1D63 |-> <<"r">>, u1D64 |-> <<"u">>, u1D65 |-> <<"v">>, u1D66 |-> <<"u03B2">>,
         u1D67 |-> <<"u03B3">>, u1D68 |-> <<"u03C1">>, u1D69 |-> <<"u03C6">>, u1D6A |-> <<"u03C7">>,
         u1D78 |-> <<"u043D">>, u1D9B |-> <<"u0252">>, u1D9C |-> <<"c">>, u1D9D |-> <<"u0255">>,
         u1D9E |-> <<"u00F0">>, u1D9F |-> <<"u025C">>, u1DA0 |-> <<"f">>, u1DA1 |-> <<"u025F">>,
         u1DA2 |-> <<"u0261">>, u1DA3 |-> <<"u0265">>, u1DA4 |-> <<"u0268">>, u1DA5 |-> <<"u0269">>,
         u1DA6 |-> <<"u026A">>, u1DA7 |-> <<"u1D7B">>, u1DA8 |-> <<"u029D">>, u1DA9 |-> <<"u026D">>,
         u1DAA |-> <<"u1D85">>, u1DAB |-> <<"u029F">>, u1DAC |-> <<"u0271">>, u1DAD |-> <<"u0270">>,
         u1DAE |-> <<"u0272">>, u1DAF |-> <<"u0273">>, u1DB0 |-> <<"u0274">>, u1DB1 |-> <<"u0275">>,
         u1DB2 |-> <<"u0278">>, u1DB3 |-> <<"u0282">>, u1DB4 |-> <<"u0283">>, u1DB5 |-> <<"u01AB">>,
         u1DB6 |-> <<"u0289">>, u1DB7 |-> <<"u028A">>, u1DB8 |-> <<"u1D1C">>, u1DB9 |-> <<"u028B">>,
         u1DBA |-> <<"u028C">>, u1DBB |-> <<"z">>, u1DBC |-> <<"u0290">>, u1DBD |-> <<"u0291">>,
         u1DBE |-> <<"u0292">>, u1DBF |-> <<"u03B8">>, u1E00 |-> <<"A", "u0325">>, u1E01 |-> <<"a", "u0325">>,
         u1E02 |-> <<"B", "u0307">>, u1E03 |-> <<"b", "u0307">>, u1E04 |-> <<"B", "u0323">>,
         u1E05 |-> <<"b", "u0323">>, u1E06 |-> <<"B", "u0331">>, u1E07 |-> <<"b", "u0331">>,
         u1E08 |-> <<"C", "u0327", "u0301">>, u1E09 |-> <<"c", "u0327", "u0301">>, u1E0A |-> <<"D", "u0307">>,
         u1E0B |-> <<"d", "u0307">>, u1E0C |-> <<"D", "u0323">>, u1E0D |-> <<"d", "u0323">>,
         u1E0E |-> <<"D", "u0331">>, u1E0F |-> <<"d", "u0331">>, u1E10 |-> <<"D", "u0327">>,
         u1E11 |-> <<"d", "u0327">>, u1E12 |-> <<"D", "u032D">>, u1E13 |-> <<"d", "u032D">>,
         u1E14 |-> <<"E", "u0304", "u0300">>, u1E15 |-> <<"e", "u0304", "u0300">>,
         u1E16 |-> <<"E", "u0304", "u0301">>, u1E17 |-> <<"e", "u0304", "u0301">>, u1E18 |-> <<"E", "u032D">>,
         u1E19 |-> <<"e", "u032D">>, u1E1A |-> <<"E", "u0330">>, u1E1B |-> <<"e", "u0330">>,
         u1E1C |-> <<"E", "u0327", "u0306">>, u1E1D |-> <<"e", "u0327", "u0306">>, u1E1E |-> <<"F", "u0307">>,
         u1E1F |-> <<"f", "u0307">>, u1E20 |-> <<"G", "u0304">>, u1E21 |-> <<"g", "u0304">>,
         u1E22 |-> <<"H", "u0307">>, u1E23 |-> <<"h", "u0307">>, u1E24 |-> <<"H", "u0323">>,
         u1E25 |-> <<"h", "u0323">>, u1E26 |-> <<"H", "u0308">>, u1E27 |-> <<"h", "u0308">>,
         u1E28 |-> <<"H", "u0327">>, u1E29 |-> <<"h", "u0327">>, u1E2A |-> <<"H", "u032E">>,
         u1E2B |-> <<"h", "u032E">>, u1E2C |-> <<"I", "u0330">>, u1E2D |-> <<"i", "u0330">>,
         u1E2E |-> <<"I", "u0308", "u0301">>, u1E2F |-> <<"i", "u0308", "u0301">>, u1E30 |-> <<"K", "u0301">>,
         u1E31 |-> <<"k", "u0301">>, u1E32 |-> <<"K", "u0323">>, u1E33 |-> <<"k", "u0323">>,
         u1E34 |-> <<"K", "u0331">>, u1E35 |-> <<"k", "u0331">>, u1E36 |-> <<"L", "u0323">>,
         u1E37 |-> <<"l", "u0323">>, u1E38 |-> <<"L", "u0323", "u0304">>, u1E39 |-> <<"l", "u0323", "u0304">>,
         u1E3A |-> <<"L", "u0331">>, u1E3B |-> <<"l", "u0331">>, u1E3C |-> <<"L", "u032D">>,
         u1E3D |-> <<"l", "u032D">>, u1E3E |-> <<"M", "u0301">>, u1E3F |-> <<"m", "u0301">>,
         u1E40 |-> <<"M", "u0307">>, u1E41 |-> <<"m", "u0307">>, u1E42 |-> <<"M", "u0323">>,
         u1E43 |-> <<"m", "u0323">>, u1E44 |-> <<"N", "u0307">>, u1E45 |-> <<"n", "u0307">>,
         u1E46 |-> <<"N", "u0323">>, u1E47 |-> <<"n", "u0323">>, u1E48 |-> <<"N", "u0331">>,
         u1E49 |-> <<"n", "u0331">>, u1E4A |-> <<"N", "u032D">>, u1E4B |-> <<"n", "u032D">>,
         u1E4C |-> <<"O", "u0303", "u0301">>, u1E4D |-> <<"o", "u0303", "u0301">>,
         u1E4E |-> <<"O", "u0303", "u0308">>, u1E4F |-> <<"o", "u0303", "u0308">>,
         u1E50 |-> <<"O", "u0304", "u0300">>, u1E51 |-> <<"o", "u0304", "u0300">>,
         u1E52 |-> <<"O", "u0304", "u0301">>, u1E53 |-> <<"o", "u0304", "u0301">>, u1E54 |-> <<"P", "u0301">>,
         u1E55 |-> <<"p", "u0301">>, u1E56 |-> <<"P", "u0307">>, u1E57 |-> <<"p", "u0307">>,
         u1E58 |-> <<"R", "u0307">>, u1E59 |-> <<"r", "u0307">>, u1E5A |-> <<"R", "u0323">>,
         u1E5B |-> <<"r", "u0323">>, u1E5C |-> <<"R", "u0323", "u0304">>, u1E5D |-> <<"r", "u0323", "u0304">>,
         u1E5E |-> <<"R", "u0331">>, u1E5F |-> <<"r", "u0331">>, u1E60 |-> <<"S", "u0307">>,
         u1E61 |-> <<"s", "u0307">>, u1E62 |-> <<"S", "u0323">>, u1E63 |-> <<"s", "u0323">>,
         u1E64 |-> <<"S", "u0301", "u0307">>, u1E65 |-> <<"s", "u0301", "u0307">>,
         u1E66 |-> <<"S", "u030C", "u0307">>, u1E67 |-> <<"s", "u030C", "u0307">>,
         u1E68 |-> <<"S", "u0323", "u0307">>, u1E69 |-> <<"s", "u0323", "u0307">>, u1E6A |-> <<"T", "u0307">>,
         u1E6B |-> <<"t", "u0307">>, u1E6C |-> <<"T", "u0323">>, u1E6D |-> <<"t", "u0323">>,
         u1E6E |-> <<"T", "u0331">>, u1E6F |-> <<"t", "u0331">>, u1E70 |-> <<"T", "u032D">>,
         u1E71 |-> <<"t", "u032D">>, u1E72 |-> <<"U", "u0324">>, u1E73 |-> <<"u", "u0324">>,
         u1E74 |-> <<"U", "u0330">>, u1E75 |-> <<"u", "u0330">>, u1E76 |-> <<"U", "u032D">>,
         u1E77 |-> <<"u", "u032D">>, u1E78 |-> <<"U", "u0303", "u0301">>, u1E79 |-> <<"u", "u0303", "u0301">>,
         u1E7A |-> <<"U", "u0304", "u0308">>, u1E7B |-> <<"u", "u0304", "u0308">>, u1E7C |-> <<"V", "u0303">>,
         u1E7D |-> <<"v", "u0303">>, u1E7E |-> <<"V", "u0323">>, u1E7F |-> <<"v", "u0323">>,
         u1E80 |-> <<"W", "u0300">>, u1E81 |-> <<"w", "u0300">>, u1E82 |-> <<"W", "u0301">>,
         u1E83 |-> <<"w", "u0301">>, u1E84 |-> <<"W", "u0308">>, u1E85 |-> <<"w", "u0308">>,
         u1E86 |-> <<"W", "u0307">>, u1E87 |-> <<"w", "u0307">>, u1E88 |-> <<"W", "u0323">>,
         u1E89 |-> <<"w", "u0323">>, u1E8A |-> <<"X", "u0307">>, u1E8B |-> <<"x", "u0307">>,
         u1E8C |-> <<"X", "u0308">>, u1E8D |-> <<"x", "u0308">>, u1E8E |-> <<"Y", "u0307">>,
         u1E8F |-> <<"y", "u0307">>, u1E90 |-> <<"Z", "u0302">>, u1E91 |-> <<"z", "u0302">>,
         u1E92 |-> <<"Z", "u0323">>, u1E93 |-> <<"z", "u0323">>, u1E94 |-> <<"Z", "u0331">>,
         u1E95 |-> <<"z", "u0331">>, u1E96 |-> <<"h", "u0331">>, u1E97 |-> <<"t", "u0308">>,
         u1E98 |-> <<"w", "u030A">>, u1E99 |-> <<"y", "u030A">>, u1E9A |-> <<"a", "u02BE">>,
         u1E9B |-> <<"s", "u0307">>, u1EA0 |-> <<"A", "u0323">>, u1EA1 |-> <<"a", "u0323">>,
         u1EA2 |-> <<"A", "u0309">>, u1EA3 |-> <<"a", "u0309">>, u1EA4 |-> <<"A", "u0302", "u0301">>,
         u1EA5 |-> <<"a", "u0302", "u0301">>, u1EA6 |-> <<"A", "u0302", "u0300">>,
         u1EA7 |-> <<"a", "u0302", "u0300">>, u1EA8 |-> <<"A", "u0302", "u0309">>,
         u1EA9 |-> <<"a", "u0302", "u0309">>, u1EAA |-> <<"A", "u0302", "u0303">>,
         u1EAB |-> <<"a", "u0302", "u0303">>, u1EAC |-> <<"A", "u0323", "u0302">>,
         u1EAD |-> <<"a", "u0323", "u0302">>, u1EAE |-> <<"A", "u0306", "u0301">>,
         u1EAF |-> <<"a", "u0306", "u0301">>, u1EB0 |-> <<"A", "u0306", "u0300">>,
         u1EB1 |-> <<"a", "u0306", "u0300">>, u1EB2 |-> <<"A", "u0306", "u0309">>,
         u1EB3 |-> <<"a", "u0306", "u0309">>, u1EB4 |-> <<"A", "u0306", "u0303">>,
         u1EB5 |-> <<"a", "u0306", "u0303">>, u1EB6 |-> <<"A", "u0323", "u0306">>,
         u1EB7 |-> <<"a", "u0323", "u0306">>, u1EB8 |-> <<"E", "u0323">>, u1EB9 |-> <<"e", "u0323">>,
         u1EBA |-> <<"E", "u0309">>, u1EBB |-> <<"e", "u0309">>, u1EBC |-> <<"E", "u0303">>,
         u1EBD |-> <<"e", "u0303">>, u1EBE |-> <<"E", "u0302", "u0301">>, u1EBF |-> <<"e", "u0302", "u0301">>,
         u1EC0 |-> <<"E", "u0302", "u0300">>, u1EC1 |-> <<"e", "u0302", "u0300">>,
         u1EC2 |-> <<"E", "u0302", "u0309">>, u1EC3 |-> <<"e", "u0302", "u0309">>,
         u1EC4 |-> <<"E", "u0302", "u0303">>, u1EC5 |-> <<"e", "u0302", "u0303">>,
         u1EC6 |-> <<"E", "u0323", "u0302">>, u1EC7 |-> <<"e", "u0323", "u0302">>, u1EC8 |-> <<"I", "u0309">>,
         u1EC9 |-> <<"i", "u0309">>, u1ECA |-> <<"I", "u0323">>, u1ECB |-> <<"i", "u0323">>,
         u1ECC |-> <<"O", "u0323">>, u1ECD |-> <<"o", "u0323">>, u1ECE |-> <<"O", "u0309">>,
         u1ECF |-> <<"o", "u0309">>, u1ED0 |-> <<"O", "u0302", "u0301">>, u1ED1 |-> <<"o", "u0302", "u0301">>,
         u1ED2 |-> <<"O", "u0302", "u0300">>, u1ED3 |-> <<"o", "u0302", "u0300">>,
         u1ED4 |-> <<"O", "u0302", "u0309">>, u1ED5 |-> <<"o", "u0302", "u0309">>,
         u1ED6 |-> <<"O", "u0302", "u0303">>, u1ED7 |-> <<"o", "u0302", "u0303">>,
         u1ED8 |-> <<"O", "u0323", "u0302">>, u1ED9 |-> <<"o", "u0323", "u0302">>,
         u1EDA |-> <<"O", "u031B", "u0301">>, u1EDB |-> <<"o", "u031B", "u0301">>,
         u1EDC |-> <<"O", "u031B", "u0300">>, u1EDD |-> <<"o", "u031B", "u0300">>,
         u1EDE |-> <<"O", "u031B", "u0309">>, u1EDF |-> <<"o", "u031B", "u0309">>,
         u1EE0 |-> <<"O", "u031B", "u0303">>, u1EE1 |-> <<"o", "u031B", "u0303">>,
         u1EE2 |-> <<"O", "u031B", "u0323">>, u1EE3 |-> <<"o", "u031B", "u0323">>, u1EE4 |-> <<"U", "u0323">>,
         u1EE5 |-> <<"u", "u0323">>, u1EE6 |-> <<"U", "u0309">>, u1EE7 |-> <<"u", "u0309">>,
         u1EE8 |-> <<"U", "u031B", "u0301">>, u1EE9 |-> <<"u", "u031B", "u0301">>,
         u1EEA |-> <<"U", "u031B", "u0300">>, u1EEB |-> <<"u", "u031B", "u0300">>,
         u1EEC |-> <<"U", "u031B", "u0309">>, u1EED |-> <<"u", "u031B", "u0309">>,
         u1EEE |-> <<"U", "u031B", "u0303">>, u1EEF |-> <<"u", "u031B", "u0303">>,
         u1EF0 |-> <<"U", "u031B", "u0323">>, u1EF1 |-> <<"u", "u031B", "u0323">>, u1EF2 |-> <<"Y", "u0300">>,
         u1EF3 |-> <<"y", "u0300">>, u1EF4 |-> <<"Y", "u0323">>, u1EF5 |-> <<"y", "u0323">>,
         u1EF6 |-> <<"Y", "u0309">>, u1EF7 |-> <<"y", "u0309">>, u1EF8 |-> <<"Y", "u0303">>,
         u1EF9 |-> <<"y", "u0303">>, u1F00 |-> <<"u03B1", "u0313">>, u1F01 |-> <<"u03B1", "u0314">>,
         u1F02 |-> <<"u03B1", "u0313", "u0300">>, u1F03 |-> <<"u03B1", "u0314", "u0300">>,
         u1F04 |-> <<"u03B1", "u0313", "u0301">>, u1F05 |-> <<"u03B1", "u0314", "u0301">>,
         u1F06 |-> <<"u03B1", "u0313", "u0342">>, u1F07 |-> <<"u03B1", "u0314", "u0342">>,
         u1F08 |-> <<"u0391", "u0313">>, u1F09 |-> <<"u0391", "u0314">>,
         u1F0A |-> <<"u0391", "u0313", "u0300">>, u1F0B |-> <<"u0391", "u0314", "u0300">>,
         u1F0C |-> <<"u0391", "u0313", "u0301">>, u1F0D |-> <<"u0391", "u0314", "u0301">>,
         u1F0E |-> <<"u0391", "u0313", "u0342">>, u1F0F |-> <<"u0391", "u0314", "u0342">>,
         u1F10 |-> <<"u03B5", "u0313">>, u1F11 |-> <<"u03B5", "u0314">>,
         u1F12 |-> <<"u03B5", "u0313", "u0300">>, u1F13 |-> <<"u03B5", "u0314", "u0300">>,
         u1F14 |-> <<"u03B5", "u0313", "u0301">>, u1F15 |-> <<"u03B5", "u0314", "u0301">>,
         u1F18 |-> <<"u0395", "u0313">>, u1F19 |-> <<"u0395", "u0314">>,
         u1F1A |-> <<"u0395", "u0313", "u0300">>, u1F1B |-> <<"u0395", "u0314", "u0300">>,
         u1F1C |-> <<"u0395", "u0313", "u0301">>, u1F1D |-> <<"u0395", "u0314", "u0301">>,
         u1F20 |-> <<"u03B7", "u0313">>, u1F21 |-> <<"u03B7", "u0314">>,
         u1F22 |-> <<"u03B7", "u0313", "u0300">>, u1F23 |-> <<"u03B7", "u0314", "u0300">>,
         u1F24 |-> <<"u03B7", "u0313", "u0301">>, u1F25 |-> <<"u03B7", "u0314", "u0301">>,
         u1F26 |-> <<"u03B7", "u0313", "u0342">>, u1F27 |-> <<"u03B7", "u0314", "u0342">>,
         u1F28 |-> <<"u0397", "u0313">>, u1F29 |-> <<"u0397", "u0314">>,
         u1F2A |-> <<"u0397", "u0313", "u0300">>, u1F2B |-> <<"u0397", "u0314", "u0300">>,
         u1F2C |-> <<"u0397", "u0313", "u0301">>, u1F2D |-> <<"u0397", "u0314", "u0301">>,
         u1F2E |-> <<"u0397", "u0313", "u0342">>, u1F2F |-> <<"u0397", "u0314", "u0342">>,
         u1F30 |-> <<"u03B9", "u0313">>, u1F31 |-> <<"u03B9", "u0314">>,
         u1F32 |-> <<"u03B9", "u0313", "u0300">>, u1F33 |-> <<"u03B9", "u0314", "u0300">>,
         u1F34 |-> <<"u03B9", "u0313", "u0301">>, u1F35 |-> <<"u03B9", "u0314", "u0301">>,
         u1F36 |-> <<"u03B9", "u0313", "u0342">>, u1F37 |-> <<"u03B9", "u0314", "u0342">>,
         u1F38 |-> <<"u0399", "u0313">>, u1F39 |-> <<"u0399", "u0314">>,
         u1F3A |-> <<"u0399", "u0313", "u0300">>, u1F3B |-> <<"u0399", "u0314", "u0300">>,
         u1F3C |-> <<"u0399", "u0313", "u0301">>, u1F3D |-> <<"u0399", "u0314", "u0301">>,
         u1F3E |-> <<"u0399", "u0313", "u0342">>, u1F3F |-> <<"u0399", "u0314", "u0342">>,
         u1F40 |-> <<"u03BF", "u0313">>, u1F41 |-> <<"u03BF", "u0314">>,
         u1F42 |-> <<"u03BF", "u0313", "u0300">>, u1F43 |-> <<"u03BF", "u0314", "u0300">>,
         u1F44 |-> <<"u03BF", "u0313", "u0301">>, u1F45 |-> <<"u03BF", "u0314", "u0301">>,
         u1F48 |-> <<"u039F", "u0313">>, u1F49 |-> <<"u039F", "u0314">>,
         u1F4A |-> <<"u039F", "u0313", "u0300">>, u1F4B |-> <<"u039F", "u0314", "u0300">>,
         u1F4C |-> <<"u039F", "u0313", "u0301">>, u1F4D |-> <<"u039F", "u0314", "u0301">>,
         u1F50 |-> <<"u03C5", "u0313">>, u1F51 |-> <<"u03C5", "u0314">>,
         u1F52 |-> <<"u03C5", "u0313", "u0300">>, u1F53 |-> <<"u03C5", "u0314", "u0300">>,
         u1F54 |-> <<"u03C5", "u0313", "u0301">>, u1F55 |-> <<"u03C5", "u0314", "u0301">>,
         u1F56 |-> <<"u03C5", "u0313", "u0342">>, u1F57 |-> <<"u03C5", "u0314", "u0342">>,
         u1F59 |-> <<"u03A5", "u0314">>, u1F5B |-> <<"u03A5", "u0314", "u0300">>,
         u1F5D |-> <<"u03A5", "u0314", "u0301">>, u1F5F |-> <<"u03A5", "u0314", "u0342">>,
         u1F60 |-> <<"u03C9", "u0313">>, u1F61 |-> <<"u03C9", "u0314">>,
         u1F62 |-> <<"u03C9", "u0313", "u0300">>, u1F63 |-> <<"u03C9", "u0314", "u0300">>,
         u1F64 |-> <<"u03C9", "u0313", "u0301">>, u1F65 |-> <<"u03C9", "u0314", "u0301">>,
         u1F66 |-> <<"u03C9", "u0313", "u0342">>, u1F67 |-> <<"u03C9", "u0314", "u0342">>,
         u1F68 |-> <<"u03A9", "u0313">>, u1F69 |-> <<"u03A9", "u0314">>,
         u1F6A |-> <<"u03A9", "u0313", "u0300">>, u1F6B |-> <<"u03A9", "u0314", "u0300">>,
         u1F6C |-> <<"u03A9", "u0313", "u0301">>, u1F6D |-> <<"u03A9", "u0314", "u0301">>,
         u1F6E |-> <<"u03A9", "u0313", "u0342">>, u1F6F |-> <<"u03A9", "u0314", "u0342">>,
         u1F70 |-> <<"u03B1", "u0300">>, u1F71 |-> <<"u03B1", "u0301">>, u1F72 |-> <<"u03B5", "u0300">>,
         u1F73 |-> <<"u03B5", "u0301">>, u1F74 |-> <<"u03B7", "u0300">>, u1F75 |-> <<"u03B7", "u0301">>,
         u1F76 |-> <<"u03B9", "u0300">>, u1F77 |-> <<"u03B9", "u0301">>, u1F78 |-> <<"u03BF", "u0300">>,
         u1F79 |-> <<"u03BF", "u0301">>, u1F7A |-> <<"u03C5", "u0300">>, u1F7B |-> <<"u03C5", "u0301">>,
         u1F7C |-> <<"u03C9", "u0300">>, u1F7D |-> <<"u03C9", "u0301">>,
         u1F80 |-> <<"u03B1", "u0313", "u0345">>, u1F81 |-> <<"u03B1", "u0314", "u0345">>,
         u1F82 |-> <<"u03B1", "u0313", "u0300", "u0345">>, u1F83 |-> <<"u03B1", "u0314", "u0300", "u0345">>,
         u1F84 |-> <<"u03B1", "u0313", "u0301", "u0345">>, u1F85 |-> <<"u03B1", "u0314", "u0301", "u0345">>,
         u1F86 |-> <<"u03B1", "u0313", "u0342", "u0345">>, u1F87 |-> <<"u03B1", "u0314", "u0342", "u0345">>,
         u1F88 |-> <<"u0391", "u0313", "u0345">>, u1F89 |-> <<"u0391", "u0314", "u0345">>,
         u1F8A |-> <<"u0391", "u0313", "u0300", "u0345">>, u1F8B |-> <<"u0391", "u0314", "u0300", "u0345">>,
         u1F8C |-> <<"u0391", "u0313", "u0301", "u0345">>, u1F8D |-> <<"u0391", "u0314", "u0301", "u0345">>,
         u1F8E |-> <<"u0391", "u0313", "u0342", "u0345">>, u1F8F |-> <<"u0391", "u0314", "u0342", "u0345">>,
         u1F90 |-> <<"u03B7", "u0313", "u0345">>, u1F91 |-> <<"u03B7", "u0314", "u0345">>,
         u1F92 |-> <<"u03B7", "u0313", "u0300", "u0345">>, u1F93 |-> <<"u03B7", "u0314", "u0300", "u0345">>,
         u1F94 |-> <<"u03B7", "u0313", "u0301", "u0345">>, u1F95 |-> <<"u03B7", "u0314", "u0301", "u0345">>,
         u1F96 |-> <<"u03B7", "u0313", "u0342", "u0345">>, u1F97 |-> <<"u03B7", "u0314", "u0342", "u0345">>,
         u1F98 |-> <<"u0397", "u0313", "u0345">>, u1F99 |-> <<"u0397", "u0314", "u0345">>,
         u1F9A |-> <<"u0397", "u0313", "u0300", "u0345">>, u1F9B |-> <<"u0397", "u0314", "u0300", "u0345">>,
         u1F9C |-> <<"u0397", "u0313", "u0301", "u0345">>, u1F9D |-> <<"u0397", "u0314", "u0301", "u0345">>,
         u1F9E |-> <<"u0397", "u0313", "u0342", "u0345">>, u1F9F |-> <<"u0397", "u0314", "u0342", "u0345">>,
         u1FA0 |-> <<"u03C9", "u0313", "u0345">>, u1FA1 |-> <<"u03C9", "u0314", "u0345">>,
         u1FA2 |-> <<"u03C9", "u0313", "u0300", "u0345">>, u1FA3 |-> <<"u03C9", "u0314", "u0300", "u0345">>,
         u1FA4 |-> <<"u03C9", "u0313", "u0301", "u0345">>, u1FA5 |-> <<"u03C9", "u0314", "u0301", "u0345">>,
         u1FA6 |-> <<"u03C9", "u0313", "u0342", "u0345">>, u1FA7 |-> <<"u03C9", "u0314", "u0342", "u0345">>,
         u1FA8 |-> <<"u03A9", "u0313", "u0345">>, u1FA9 |-> <<"u03A9", "u0314", "u0345">>,
         u1FAA |-> <<"u03A9", "u0313", "u0300", "u0345">>, u1FAB |-> <<"u03A9", "u0314", "u0300", "u0345">>,
         u1FAC |-> <<"u03A9", "u0313", "u0301", "u0345">>, u1FAD |-> <<"u03A9", "u0314", "u0301", "u0345">>,
         u1FAE |-> <<"u03A9", "u0313", "u0342", "u0345">>, u1FAF |-> <<"u03A9", "u0314", "u0342", "u0345">>,
         u1FB0 |-> <<"u03B1", "u0306">>, u1FB1 |-> <<"u03B1", "u0304">>,
         u1FB2 |-> <<"u03B1", "u0300", "u0345">>, u1FB3 |-> <<"u03B1", "u0345">>,
         u1FB4 |-> <<"u03B1", "u0301", "u0345">>, u1FB6 |-> <<"u03B1", "u0342">>,
         u1FB7 |-> <<"u03B1", "u0342", "u0345">>, u1FB8 |-> <<"u0391", "u0306">>,
         u1FB9 |-> <<"u0391", "u0304">>, u1FBA |-> <<"u0391", "u0300">>, u1FBB |-> <<"u0391", "u0301">>,
         u1FBC |-> <<"u0391", "u0345">>, u1FBD |-> <<" ", "u0313">>, u1FBE |-> <<"u03B9">>,
         u1FBF |-> <<" ", "u0313">>, u1FC0 |-> <<" ", "u0342">>, u1FC1 |-> <<" ", "u0308", "u0342">>,
         u1FC2 |-> <<"u03B7", "u0300", "u0345">>, u1FC3 |-> <<"u03B7", "u0345">>,
         u1FC4 |-> <<"u03B7", "u0301", "u0345">>, u1FC6 |-> <<"u03B7", "u0342">>,
         u1FC7 |-> <<"u03B7", "u0342", "u0345">>, u1FC8 |-> <<"u0395", "u0300">>,
         u1FC9 |-> <<"u0395", "u0301">>, u1FCA |-> <<"u0397", "u0300">>, u1FCB |-> <<"u0397", "u0301">>,
         u1FCC |-> <<"u0397", "u0345">>, u1FCD |-> <<" ", "u0313", "u0300">>,
         u1FCE |-> <<" ", "u0313", "u0301">>, u1FCF |-> <<" ", "u0313", "u0342">>,
         u1FD0 |-> <<"u03B9", "u0306">>, u1FD1 |-> <<"u03B9", "u0304">>,
         u1FD2 |-> <<"u03B9", "u0308", "u0300">>, u1FD3 |-> <<"u03B9", "u0308", "u0301">>,
         u1FD6 |-> <<"u03B9", "u0342">>, u1FD7 |-> <<"u03B9", "u0308", "u0342">>,
         u1FD8 |-> <<"u0399", "u0306">>, u1FD9 |-> <<"u0399", "u0304">>, u1FDA |-> <<"u0399", "u0300">>,
         u1FDB |-> <<"u0399", "u0301">>, u1FDD |-> <<" ", "u0314", "u0300">>,
         u1FDE |-> <<" ", "u0314", "u0301">>, u1FDF |-> <<" ", "u0314", "u0342">>,
         u1FE0 |-> <<"u03C5", "u0306">>, u1FE1 |-> <<"u03C5", "u0304">>,
         u1FE2 |-> <<"u03C5", "u0308", "u0300">>, u1FE3 |-> <<"u03C5", "u0308", "u0301">>,
         u1FE4 |-> <<"u03C1", "u0313">>, u1FE5 |-> <<"u03C1", "u0314">>, u1FE6 |-> <<"u03C5", "u0342">>,
         u1FE7 |-> <<"u03C5", "u0308", "u0342">>, u1FE8 |-> <<"u03A5", "u0306">>,
         u1FE9 |-> <<"u03A5", "u0304">>, u1FEA |-> <<"u03A5", "u0300">>, u1FEB |-> <<"u03A5", "u0301">>,
         u1FEC |-> <<"u03A1", "u0314">>, u1FED |-> <<" ", "u0308", "u0300">>,
         u1FEE |-> <<" ", "u0308", "u0301">>, u1FEF |-> <<"u0060">>, u1FF2 |-> <<"u03C9", "u0300", "u0345">>,
         u1FF3 |-> <<"u03C9", "u0345">>, u1FF4 |-> <<"u03C9", "u0301", "u0345">>,
         u1FF6 |-> <<"u03C9", "u0342">>, u1FF7 |-> <<"u03C9", "u0342", "u0345">>,
         u1FF8 |-> <<"u039F", "u0300">>, u1FF9 |-> <<"u039F", "u0301">>, u1FFA |-> <<"u03A9", "u0300">>,
         u1FFB |-> <<"u03A9", "u0301">>, u1FFC |-> <<"u03A9", "u0345">>, u1FFD |-> <<" ", "u0301">>,
         u1FFE |-> <<" ", "u0314">>, u2000 |-> <<" ">>, u2001 |-> <<" ">>, u2002 |-> <<" ">>,
         u2003 |-> <<" ">>, u2004 |-> <<" ">>, u2005 |-> <<" ">>, u2006 |-> <<" ">>, u2007 |-> <<" ">>,
         u2008 |-> <<" ">>, u2009 |-> <<" ">>, u200A |-> <<" ">>, u2011 |-> <<"u2010">>,
         u2017 |-> <<" ", "u0333">>, u2024 |-> <<".">>, u2025 |-> <<".", ".">>, u2026 |-> <<".", ".", ".">>,
         u202F |-> <<" ">>, u2033 |-> <<"u2032", "u2032">>, u2034 |-> <<"u2032", "u2032", "u2032">>,
         u2036 |-> <<"u2035", "u2035">>, u2037 |-> <<"u2035", "u2035", "u2035">>, u203C |-> <<"!", "!">>,
         u203E |-> <<" ", "u0305">>, u2047 |-> <<"?", "?">>, u2048 |-> <<"?", "!">>, u2049 |-> <<"!", "?">>,
         u2057 |-> <<"u2032", "u2032", "u2032", "u2032">>, u205F |-> <<" ">>, u2070 |-> <<"0">>,
         u2071 |-> <<"i">>, u2074 |-> <<"4">>, u2075 |-> <<"5">>, u2076 |-> <<"6">>, u2077 |-> <<"7">>,
         u2078 |-> <<"8">>, u2079 |-> <<"9">>, u207A |-> <<"+">>, u207B |-> <<"u2212">>, u207C |-> <<"=">>,
         u207D |-> <<"(">>, u207E |-> <<")">>, u207F |-> <<"n">>, u2080 |-> <<"0">>, u2081 |-> <<"1">>,
         u2082 |-> <<"2">>, u2083 |-> <<"3">>, u2084 |-> <<"4">>, u2085 |-> <<"5">>, u2086 |-> <<"6">>,
         u2087 |-> <<"7">>, u2088 |-> <<"8">>, u2089 |-> <<"9">>, u208A |-> <<"+">>, u208B |-> <<"u2212">>,
         u208C |-> <<"=">>, u208D |-> <<"(">>, u208E |-> <<")">>, u2090 |-> <<"a">>, u2091 |-> <<"e">>,
         u2092 |-> <<"o">>, u2093 |-> <<"x">>, u2094 |-> <<"u0259">>, u2095 |-> <<"h">>, u2096 |-> <<"k">>,
         u2097 |-> <<"l">>, u2098 |-> <<"m">>, u2099 |-> <<"n">>, u209A |-> <<"p">>, u209B |-> <<"s">>,
         u209C |-> <<"t">>, u20A8 |-> <<"R", "s">>, u2100 |-> <<"a", "/", "c">>, u2101 |-> <<"a", "/", "s">>,
         u2102 |-> <<"C">>, u2103 |-> <<"u00B0", "C">>, u2105 |-> <<"c", "/", "o">>,
         u2106 |-> <<"c", "/", "u">>, u2107 |-> <<"u0190">>, u2109 |-> <<"u00B0", "F">>, u210A |-> <<"g">>,
         u210B |-> <<"H">>, u210C |-> <<"H">>, u210D |-> <<"H">>, u210E |-> <<"h">>, u210F |-> <<"u0127">>,
         u2110 |-> <<"I">>, u2111 |-> <<"I">>, u2112 |-> <<"L">>, u2113 |-> <<"l">>, u2115 |-> <<"N">>,
         u2116 |-> <<"N", "o">>, u2119 |-> <<"P">>, u211A |-> <<"Q">>, u211B |-> <<"R">>, u211C |-> <<"R">>,
         u211D |-> <<"R">>, u2120 |-> <<"S", "M">>, u2121 |-> <<"T", "E", "L">>, u2122 |-> <<"T", "M">>,
         u2124 |-> <<"Z">>, u2126 |-> <<"u03A9">>, u2128 |-> <<"Z">>, u212A |-> <<"K">>,
         u212B |-> <<"A", "u030A">>, u212C |-> <<"B">>, u212D |-> <<"C">>, u212F |-> <<"e">>,
         u2130 |-> <<"E">>, u2131 |-> <<"F">>, u2133 |-> <<"M">>, u2134 |-> <<"o">>, u2135 |-> <<"u05D0">>,
         u2136 |-> <<"u05D1">>, u2137 |-> <<"u05D2">>, u2138 |-> <<"u05D3">>, u2139 |-> <<"i">>,
         u213B |-> <<"F", "A", "X">>, u213C |-> <<"u03C0">>, u213D |-> <<"u03B3">>, u213E |-> <<"u0393">>,
         u213F |-> <<"u03A0">>, u2140 |-> <<"u2211">>, u2145 |-> <<"D">>, u2146 |-> <<"d">>,
         u2147 |-> <<"e">>, u2148 |-> <<"i">>, u2149 |-> <<"j">>, u2150 |-> <<"1", "u2044", "7">>,
         u2151 |-> <<"1", "u2044", "9">>, u2152 |-> <<"1", "u2044", "1", "0">>,
         u2153 |-> <<"1", "u2044", "3">>, u2154 |-> <<"2", "u2044", "3">>, u2155 |-> <<"1", "u2044", "5">>,
         u2156 |-> <<"2", "u2044", "5">>, u2157 |-> <<"3", "u2044", "5">>, u2158 |-> <<"4", "u2044", "5">>,
         u2159 |-> <<"1", "u2044", "6">>, u215A |-> <<"5", "u2044", "6">>, u215B |-> <<"1", "u2044", "8">>,
         u215C |-> <<"3", "u2044", "8">>, u215D |-> <<"5", "u2044", "8">>, u215E |-> <<"7", "u2044", "8">>,
         u215F |-> <<"1", "u2044">>, u2160 |-> <<"I">>, u2161 |-> <<"I", "I">>, u2162 |-> <<"I", "I", "I">>,
         u2163 |-> <<"I", "V">>, u2164 |-> <<"V">>, u2165 |-> <<"V", "I">>, u2166 |-> <<"V", "I", "I">>,
         u2167 |-> <<"V", "I", "I", "I">>, u2168 |-> <<"I", "X">>, u2169 |-> <<"X">>, u216A |-> <<"X", "I">>,
         u216B |-> <<"X", "I", "I">>, u216C |-> <<"L">>, u216D |-> <<"C">>, u216E |-> <<"D">>,
         u216F |-> <<"M">>, u2170 |-> <<"i">>, u2171 |-> <<"i", "i">>, u2172 |-> <<"i", "i", "i">>,
         u2173 |-> <<"i", "v">>, u2174 |-> <<"v">>, u2175 |-> <<"v", "i">>, u2176 |-> <<"v", "i", "i">>,
         u2177 |-> <<"v", "i", "i", "i">>, u2178 |-> <<"i", "x">>, u2179 |-> <<"x">>, u217A |-> <<"x", "i">>,
         u217B |-> <<"x", "i", "i">>, u217C |-> <<"l">>, u217D |-> <<"c">>, u217E |-> <<"d">>,
         u217F |-> <<"m">>, u2189 |-> <<"0", "u2044", "3">>, u219A |-> <<"u2190", "u0338">>,
         u219B |-> <<"u2192", "u0338">>, u21AE |-> <<"u2194", "u0338">>, u21CD |-> <<"u21D0", "u0338">>,
         u21CE |-> <<"u21D4", "u0338">>, u21CF |-> <<"u21D2", "u0338">>, u2204 |-> <<"u2203", "u0338">>,
         u2209 |-> <<"u2208", "u0338">>, u220C |-> <<"u220B", "u0338">>, u2224 |-> <<"u2223", "u0338">>,
         u2226 |-> <<"u2225", "u0338">>, u222C |-> <<"u222B", "u222B">>,
         u222D |-> <<"u222B", "u222B", "u222B">>, u222F |-> <<"u222E", "u222E">>,
         u2230 |-> <<"u222E", "u222E", "u222E">>, u2241 |-> <<"u223C", "u0338">>,
         u2244 |-> <<"u2243", "u0338">>, u2247 |-> <<"u2245", "u0338">>, u2249 |-> <<"u2248", "u0338">>,
         u2260 |-> <<"=", "u0338">>, u2262 |-> <<"u2261", "u0338">>, u226D |-> <<"u224D", "u0338">>,
         u226E |-> <<"<", "u0338">>, u226F |-> <<">", "u0338">>, u2270 |-> <<"u2264", "u0338">>,
         u2271 |-> <<"u2265", "u0338">>, u2274 |-> <<"u2272", "u0338">>, u2275 |-> <<"u2273", "u0338">>,
         u2278 |-> <<"u2276", "u0338">>, u2279 |-> <<"u2277", "u0338">>, u2280 |-> <<"u227A", "u0338">>,
         u2281 |-> <<"u227B", "u0338">>, u2284 |-> <<"u2282", "u0338">>, u2285 |-> <<"u2283", "u0338">>,
         u2288 |-> <<"u2286", "u0338">>, u2289 |-> <<"u2287", "u0338">>, u22AC |-> <<"u22A2", "u0338">>,
         u22AD |-> <<"u22A8", "u0338">>, u22AE |-> <<"u22A9", "u0338">>, u22AF |-> <<"u22AB", "u0338">>,
         u22E0 |-> <<"u227C", "u0338">>, u22E1 |-> <<"u227D", "u0338">>, u22E2 |-> <<"u2291", "u0338">>,
         u22E3 |-> <<"u2292", "u0338">>, u22EA |-> <<"u22B2", "u0338">>, u22EB |-> <<"u22B3", "u0338">>,
         u22EC |-> <<"u22B4", "u0338">>, u22ED |-> <<"u22B5", "u0338">>, u2329 |-> <<"u3008">>,
         u232A |-> <<"u3009">>, u2460 |-> <<"1">>, u2461 |-> <<"2">>, u2462 |-> <<"3">>, u2463 |-> <<"4">>,
         u2464 |-> <<"5">>, u2465 |-> <<"6">>, u2466 |-> <<"7">>, u2467 |-> <<"8">>, u2468 |-> <<"9">>,
         u2469 |-> <<"1", "0">>, u246A |-> <<"1", "1">>, u246B |-> <<"1", "2">>, u246C |-> <<"1", "3">>,
         u246D |-> <<"1", "4">>, u246E |-> <<"1", "5">>, u246F |-> <<"1", "6">>, u2470 |-> <<"1", "7">>,
         u2471 |-> <<"1", "8">>, u2472 |-> <<"1", "9">>, u2473 |-> <<"2", "0">>, u2474 |-> <<"(", "1", ")">>,
         u2475 |-> <<"(", "2", ")">>, u2476 |-> <<"(", "3", ")">>, u2477 |-> <<"(", "4", ")">>,
         u2478 |-> <<"(", "5", ")">>, u2479 |-> <<"(", "6", ")">>, u247A |-> <<"(", "7", ")">>,
         u247B |-> <<"(", "8", ")">>, u247C |-> <<"(", "9", ")">>, u247D |-> <<"(", "1", "0", ")">>,
         u247E |-> <<"(", "1", "1", ")">>, u247F |-> <<"(", "1", "2", ")">>, u2480 |-> <<"(", "1", "3", ")">>,
         u2481 |-> <<"(", "1", "4", ")">>, u2482 |-> <<"(", "1", "5", ")">>, u2483 |-> <<"(", "1", "6", ")">>,
         u2484 |-> <<"(", "1", "7", ")">>, u2485 |-> <<"(", "1", "8", ")">>, u2486 |-> <<"(", "1", "9", ")">>,
         u2487 |-> <<"(", "2", "0", ")">>, u2488 |-> <<"1", ".">>, u2489 |-> <<"2", ".">>,
         u248A |-> <<"3", ".">>, u248B |-> <<"4", ".">>, u248C |-> <<"5", ".">>, u248D |-> <<"6", ".">>,
         u248E |-> <<"7", ".">>, u248F |-> <<"8", ".">>, u2490 |-> <<"9", ".">>, u2491 |-> <<"1", "0", ".">>,
         u2492 |-> <<"1", "1", ".">>, u2493 |-> <<"1", "2", ".">>, u2494 |-> <<"1", "3", ".">>,
         u2495 |-> <<"1", "4", ".">>, u2496 |-> <<"1", "5", ".">>, u2497 |-> <<"1", "6", ".">>,
         u2498 |-> <<"1", "7", ".">>, u2499 |-> <<"1", "8", ".">>, u249A |-> <<"1", "9", ".">>,
         u249B |-> <<"2", "0", ".">>, u249C |-> <<"(", "a", ")">>, u249D |-> <<"(", "b", ")">>,
         u249E |-> <<"(", "c", ")">>, u249F |-> <<"(", "d", ")">>, u24A0 |-> <<"(", "e", ")">>,
         u24A1 |-> <<"(", "f", ")">>, u24A2 |-> <<"(", "g", ")">>, u24A3 |-> <<"(", "h", ")">>,
         u24A4 |-> <<"(", "i", ")">>, u24A5 |-> <<"(", "j", ")">>, u24A6 |-> <<"(", "k", ")">>,
         u24A7 |-> <<"(", "l", ")">>, u24A8 |-> <<"(", "m", ")">>, u24A9 |-> <<"(", "n", ")">>,
         u24AA |-> <<"(", "o", ")">>, u24AB |-> <<"(", "p", ")">>, u24AC |-> <<"(", "q", ")">>,
         u24AD |-> <<"(", "r", ")">>, u24AE |-> <<"(", "s", ")">>, u24AF |-> <<"(", "t", ")">>,
         u24B0 |-> <<"(", "u", ")">>, u24B1 |-> <<"(", "v", ")">>, u24B2 |-> <<"(", "w", ")">>,
         u24B3 |-> <<"(", "x", ")">>, u24B4 |-> <<"(", "y", ")">>, u24B5 |-> <<"(", "z", ")">>,
         u24B6 |-> <<"A">>, u24B7 |-> <<"B">>, u24B8 |-> <<"C">>, u24B9 |-> <<"D">>, u24BA |-> <<"E">>,
         u24BB |-> <<"F">>, u24BC |-> <<"G">>, u24BD |-> <<"H">>, u24BE |-> <<"I">>, u24BF |-> <<"J">>,
         u24C0 |-> <<"K">>, u24C1 |-> <<"L">>, u24C2 |-> <<"M">>, u24C3 |-> <<"N">>, u24C4 |-> <<"O">>,
         u24C5 |-> <<"P">>, u24C6 |-> <<"Q">>, u24C7 |-> <<"R">>, u24C8 |-> <<"S">>, u24C9 |-> <<"T">>,
         u24CA |-> <<"U">>, u24CB |-> <<"V">>, u24CC |-> <<"W">>, u24CD |-> <<"X">>, u24CE |-> <<"Y">>,
         u24CF |-> <<"Z">>, u24D0 |-> <<"a">>, u24D1 |-> <<"b">>, u24D2 |-> <<"c">>, u24D3 |-> <<"d">>,
         u24D4 |-> <<"e">>, u24D5 |-> <<"f">>, u24D6 |-> <<"g">>, u24D7 |-> <<"h">>, u24D8 |-> <<"i">>,
         u24D9 |-> <<"j">>, u24DA |-> <<"k">>, u24DB |-> <<"l">>, u24DC |-> <<"m">>, u24DD |-> <<"n">>,
         u24DE |-> <<"o">>, u24DF |-> <<"p">>, u24E0 |-> <<"q">>, u24E1 |-> <<"r">>, u24E2 |-> <<"s">>,
         u24E3 |-> <<"t">>, u24E4 |-> <<"u">>, u24E5 |-> <<"v">>, u24E6 |-> <<"w">>, u24E7 |-> <<"x">>,
         u24E8 |-> <<"y">>, u24E9 |-> <<"z">>, u24EA |-> <<"0">>,
         u2A0C |-> <<"u222B", "u222B", "u222B", "u222B">>, u2A74 |-> <<":", ":", "=">>,
         u2A75 |-> <<"=", "=">>, u2A76 |-> <<"=", "=", "=">>, u2ADC |-> <<"u2ADD", "u0338">>,
         u2C7C |-> <<"j">>, u2C7D |-> <<"V">>, u2D6F |-> <<"u2D61">>, u2E9F |-> <<"u6BCD">>,
         u2EF3 |-> <<"u9F9F">>, u2F00 |-> <<"u4E00">>, u2F01 |-> <<"u4E28">>, u2F02 |-> <<"u4E36">>,
         u2F03 |-> <<"u4E3F">>, u2F04 |-> <<"u4E59">>, u2F05 |-> <<"u4E85">>, u2F06 |-> <<"u4E8C">>,
         u2F07 |-> <<"u4EA0">>, u2F08 |-> <<"u4EBA">>, u2F09 |-> <<"u513F">>, u2F0A |-> <<"u5165">>,
         u2F0B |-> <<"u516B">>, u2F0C |-> <<"u5182">>, u2F0D |-> <<"u5196">>, u2F0E |-> <<"u51AB">>,
         u2F0F |-> <<"u51E0">>, u2F10 |-> <<"u51F5">>, u2F11 |-> <<"u5200">>, u2F12 |-> <<"u529B">>,
         u2F13 |-> <<"u52F9">>, u2F14 |-> <<"u5315">>, u2F15 |-> <<"u531A">>, u2F16 |-> <<"u5338">>,
         u2F17 |-> <<"u5341">>, u2F18 |-> <<"u535C">>, u2F19 |-> <<"u5369">>, u2F1A |-> <<"u5382">>,
         u2F1B |-> <<"u53B6">>, u2F1C |-> <<"u53C8">>, u2F1D |-> <<"u53E3">>, u2F1E |-> <<"u56D7">>,
         u2F1F |-> <<"u571F">>, u2F20 |-> <<"u58EB">>, u2F21 |-> <<"u5902">>, u2F22 |-> <<"u590A">>,
         u2F23 |-> <<"u5915">>, u2F24 |-> <<"u5927">>, u2F25 |-> <<"u5973">>, u2F26 |-> <<"u5B50">>,
         u2F27 |-> <<"u5B80">>, u2F28 |-> <<"u5BF8">>, u2F29 |-> <<"u5C0F">>, u2F2A |-> <<"u5C22">>,
         u2F2B |-> <<"u5C38">>, u2F2C |-> <<"u5C6E">>, u2F2D |-> <<"u5C71">>, u2F2E |-> <<"u5DDB">>,
         u2F2F |-> <<"u5DE5">>, u2F30 |-> <<"u5DF1">>, u2F31 |-> <<"u5DFE">>, u2F32 |-> <<"u5E72">>,
         u2F33 |-> <<"u5E7A">>, u2F34 |-> <<"u5E7F">>, u2F35 |-> <<"u5EF4">>, u2F36 |-> <<"u5EFE">>,
         u2F37 |-> <<"u5F0B">>, u2F38 |-> <<"u5F13">>, u2F39 |-> <<"u5F50">>, u2F3A |-> <<"u5F61">>,
         u2F3B |-> <<"u5F73">>, u2F3C |-> <<"u5FC3">>, u2F3D |-> <<"u6208">>, u2F3E |-> <<"u6236">>,
         u2F3F |-> <<"u624B">>, u2F40 |-> <<"u652F">>, u2F41 |-> <<"u6534">>, u2F42 |-> <<"u6587">>,
         u2F43 |-> <<"u6597">>, u2F44 |-> <<"u65A4">>, u2F45 |-> <<"u65B9">>, u2F46 |-> <<"u65E0">>,
         u2F47 |-> <<"u65E5">>, u2F48 |-> <<"u66F0">>, u2F49 |-> <<"u6708">>, u2F4A |-> <<"u6728">>,
         u2F4B |-> <<"u6B20">>, u2F4C |-> <<"u6B62">>, u2F4D |-> <<"u6B79">>, u2F4E |-> <<"u6BB3">>,
         u2F4F |-> <<"u6BCB">>, u2F50 |-> <<"u6BD4">>, u2F51 |-> <<"u6BDB">>, u2F52 |-> <<"u6C0F">>,
         u2F53 |-> <<"u6C14">>, u2F54 |-> <<"u6C34">>, u2F55 |-> <<"u706B">>, u2F56 |-> <<"u722A">>,
         u2F57 |-> <<"u7236">>, u2F58 |-> <<"u723B">>, u2F59 |-> <<"u723F">>, u2F5A |-> <<"u7247">>,
         u2F5B |-> <<"u7259">>, u2F5C |-> <<"u725B">>, u2F5D |-> <<"u72AC">>, u2F5E |-> <<"u7384">>,
         u2F5F |-> <<"u7389">>, u2F60 |-> <<"u74DC">>, u2F61 |-> <<"u74E6">>, u2F62 |-> <<"u7518">>,
         u2F63 |-> <<"u751F">>, u2F64 |-> <<"u7528">>, u2F65 |-> <<"u7530">>, u2F66 |-> <<"u758B">>,
         u2F67 |-> <<"u7592">>, u2F68 |-> <<"u7676">>, u2F69 |-> <<"u767D">>, u2F6A |-> <<"u76AE">>,
         u2F6B |-> <<"u76BF">>, u2F6C |-> <<"u76EE">>, u2F6D |-> <<"u77DB">>, u2F6E |-> <<"u77E2">>,
         u2F6F |-> <<"u77F3">>, u2F70 |-> <<"u793A">>, u2F71 |-> <<"u79B8">>, u2F72 |-> <<"u79BE">>,
         u2F73 |-> <<"u7A74">>, u2F74 |-> <<"u7ACB">>, u2F75 |-> <<"u7AF9">>, u2F76 |-> <<"u7C73">>,
         u2F77 |-> <<"u7CF8">>, u2F78 |-> <<"u7F36">>, u2F79 |-> <<"u7F51">>, u2F7A |-> <<"u7F8A">>,
         u2F7B |-> <<"u7FBD">>, u2F7C |-> <<"u8001">>, u2F7D |-> <<"u800C">>, u2F7E |-> <<"u8012">>,
         u2F7F |-> <<"u8033">>, u2F80 |-> <<"u807F">>, u2F81 |-> <<"u8089">>, u2F82 |-> <<"u81E3">>,
         u2F83 |-> <<"u81EA">>, u2F84 |-> <<"u81F3">>, u2F85 |-> <<"u81FC">>, u2F86 |-> <<"u820C">>,
         u2F87 |-> <<"u821B">>, u2F88 |-> <<"u821F">>, u2F89 |-> <<"u826E">>, u2F8A |-> <<"u8272">>,
         u2F8B |-> <<"u8278">>, u2F8C |-> <<"u864D">>, u2F8D |-> <<"u866B">>, u2F8E |-> <<"u8840">>,
         u2F8F |-> <<"u884C">>, u2F90 |-> <<"u8863">>, u2F91 |-> <<"u897E">>, u2F92 |-> <<"u898B">>,
         u2F93 |-> <<"u89D2">>, u2F94 |-> <<"u8A00">>, u2F95 |-> <<"u8C37">>, u2F96 |-> <<"u8C46">>,
         u2F97 |-> <<"u8C55">>, u2F98 |-> <<"u8C78">>, u2F99 |-> <<"u8C9D">>, u2F9A |-> <<"u8D64">>,
         u2F9B |-> <<"u8D70">>, u2F9C |-> <<"u8DB3">>, u2F9D |-> <<"u8EAB">>, u2F9E |-> <<"u8ECA">>,
         u2F9F |-> <<"u8F9B">>, u2FA0 |-> <<"u8FB0">>, u2FA1 |-> <<"u8FB5">>, u2FA2 |-> <<"u9091">>,
         u2FA3 |-> <<"u9149">>, u2FA4 |-> <<"u91C6">>, u2FA5 |-> <<"u91CC">>, u2FA6 |-> <<"u91D1">>,
         u2FA7 |-> <<"u9577">>, u2FA8 |-> <<"u9580">>, u2FA9 |-> <<"u961C">>, u2FAA |-> <<"u96B6">>,
         u2FAB |-> <<"u96B9">>, u2FAC |-> <<"u96E8">>, u2FAD |-> <<"u9751">>, u2FAE |-> <<"u975E">>,
         u2FAF |-> <<"u9762">>, u2FB0 |-> <<"u9769">>, u2FB1 |-> <<"u97CB">>, u2FB2 |-> <<"u97ED">>,
         u2FB3 |-> <<"u97F3">>, u2FB4 |-> <<"u9801">>, u2FB5 |-> <<"u98A8">>, u2FB6 |-> <<"u98DB">>,
         u2FB7 |-> <<"u98DF">>, u2FB8 |-> <<"u9996">>, u2FB9 |-> <<"u9999">>, u2FBA |-> <<"u99AC">>,
         u2FBB |-> <<"u9AA8">>, u2FBC |-> <<"u9AD8">>, u2FBD |-> <<"u9ADF">>, u2FBE |-> <<"u9B25">>,
         u2FBF |-> <<"u9B2F">>, u2FC0 |-> <<"u9B32">>, u2FC1 |-> <<"u9B3C">>, u2FC2 |-> <<"u9B5A">>,
         u2FC3 |-> <<"u9CE5">>, u2FC4 |-> <<"u9E75">>, u2FC5 |-> <<"u9E7F">>, u2FC6 |-> <<"u9EA5">>,
         u2FC7 |-> <<"u9EBB">>, u2FC8 |-> <<"u9EC3">>, u2FC9 |-> <<"u9ECD">>, u2FCA |-> <<"u9ED1">>,
         u2FCB |-> <<"u9EF9">>, u2FCC |-> <<"u9EFD">>, u2FCD |-> <<"u9F0E">>, u2FCE |-> <<"u9F13">>,
         u2FCF |-> <<"u9F20">>, u2FD0 |-> <<"u9F3B">>, u2FD1 |-> <<"u9F4A">>, u2FD2 |-> <<"u9F52">>,
         u2FD3 |-> <<"u9F8D">>, u2FD4 |-> <<"u9F9C">>, u2FD5 |-> <<"u9FA0">>, u3000 |-> <<" ">>,
         u3036 |-> <<"u3012">>, u3038 |-> <<"u5341">>, u3039 |-> <<"u5344">>, u303A |-> <<"u5345">>,
         u304C |-> <<"u304B", "u3099">>, u304E |-> <<"u304D", "u3099">>, u3050 |-> <<"u304F", "u3099">>,
         u3052 |-> <<"u3051", "u3099">>, u3054 |-> <<"u3053", "u3099">>, u3056 |-> <<"u3055", "u3099">>,
         u3058 |-> <<"u3057", "u3099">>, u305A |-> <<"u3059", "u3099">>, u305C |-> <<"u305B", "u3099">>,
         u305E |-> <<"u305D", "u3099">>, u3060 |-> <<"u305F", "u3099">>, u3062 |-> <<"u3061", "u3099">>,
         u3065 |-> <<"u3064", "u3099">>, u3067 |-> <<"u3066", "u3099">>, u3069 |-> <<"u3068", "u3099">>,
         u3070 |-> <<"u306F", "u3099">>, u3071 |-> <<"u306F", "u309A">>, u3073 |-> <<"u3072", "u3099">>,
         u3074 |-> <<"u3072", "u309A">>, u3076 |-> <<"u3075", "u3099">>, u3077 |-> <<"u3075", "u309A">>,
         u3079 |-> <<"u3078", "u3099">>, u307A |-> <<"u3078", "u309A">>, u307C |-> <<"u307B", "u3099">>,
         u307D |-> <<"u307B", "u309A">>, u3094 |-> <<"u3046", "u3099">>, u309B |-> <<" ", "u3099">>,
         u309C |-> <<" ", "u309A">>, u309E |-> <<"u309D", "u3099">>, u309F |-> <<"u3088", "u308A">>,
         u30AC |-> <<"u30AB", "u3099">>, u30AE |-> <<"u30AD", "u3099">>, u30B0 |-> <<"u30AF", "u3099">>,
         u30B2 |-> <<"u30B1", "u3099">>, u30B4 |-> <<"u30B3", "u3099">>, u30B6 |-> <<"u30B5", "u3099">>,
         u30B8 |-> <<"u30B7", "u3099">>, u30BA |-> <<"u30B9", "u3099">>, u30BC |-> <<"u30BB", "u3099">>,
         u30BE |-> <<"u30BD", "u3099">>, u30C0 |-> <<"u30BF", "u3099">>, u30C2 |-> <<"u30C1", "u3099">>,
         u30C5 |-> <<"u30C4", "u3099">>, u30C7 |-> <<"u30C6", "u3099">>, u30C9 |-> <<"u30C8", "u3099">>,
         u30D0 |-> <<"u30CF", "u3099">>, u30D1 |-> <<"u30CF", "u309A">>, u30D3 |-> <<"u30D2", "u3099">>,
         u30D4 |-> <<"u30D2", "u309A">>, u30D6 |-> <<"u30D5", "u3099">>, u30D7 |-> <<"u30D5", "u309A">>,
         u30D9 |-> <<"u30D8", "u3099">>, u30DA |-> <<"u30D8", "u309A">>, u30DC |-> <<"u30DB", "u3099">>,
         u30DD |-> <<"u30DB", "u309A">>, u30F4 |-> <<"u30A6", "u3099">>, u30F7 |-> <<"u30EF", "u3099">>,
         u30F8 |-> <<"u30F0", "u3099">>, u30F9 |-> <<"u30F1", "u3099">>, u30FA |-> <<"u30F2", "u3099">>,
         u30FE |-> <<"u30FD", "u3099">>, u30FF |-> <<"u30B3", "u30C8">>, u3131 |-> <<"u1100">>,
         u3132 |-> <<"u1101">>, u3133 |-> <<"u11AA">>, u3134 |-> <<"u1102">>, u3135 |-> <<"u11AC">>,
         u3136 |-> <<"u11AD">>, u3137 |-> <<"u1103">>, u3138 |-> <<"u1104">>, u3139 |-> <<"u1105">>,
         u313A |-> <<"u11B0">>, u313B |-> <<"u11B1">>, u313C |-> <<"u11B2">>, u313D |-> <<"u11B3">>,
         u313E |-> <<"u11B4">>, u313F |-> <<"u11B5">>, u3140 |-> <<"u111A">>, u3141 |-> <<"u1106">>,
         u3142 |-> <<"u1107">>, u3143 |-> <<"u1108">>, u3144 |-> <<"u1121">>, u3145 |-> <<"u1109">>,
         u3146 |-> <<"u110A">>, u3147 |-> <<"u110B">>, u3148 |-> <<"u110C">>, u3149 |-> <<"u110D">>,
         u314A |-> <<"u110E">>, u314B |-> <<"u110F">>, u314C |-> <<"u1110">>, u314D |-> <<"u1111">>,
         u314E |-> <<"u1112">>, u314F |-> <<"u1161">>, u3150 |-> <<"u1162">>, u3151 |-> <<"u1163">>,
         u3152 |-> <<"u1164">>, u3153 |-> <<"u1165">>, u3154 |-> <<"u1166">>, u3155 |-> <<"u1167">>,
         u3156 |-> <<"u1168">>, u3157 |-> <<"u1169">>, u3158 |-> <<"u116A">>, u3159 |-> <<"u116B">>,
         u315A |-> <<"u116C">>, u315B |-> <<"u116D">>, u315C |-> <<"u116E">>, u315D |-> <<"u116F">>,
         u315E |-> <<"u1170">>, u315F |-> <<"u1171">>, u3160 |-> <<"u1172">>, u3161 |-> <<"u1173">>,
         u3162 |-> <<"u1174">>, u3163 |-> <<"u1175">>, u3164 |-> <<"u1160">>, u3165 |-> <<"u1114">>,
         u3166 |-> <<"u1115">>, u3167 |-> <<"u11C7">>, u3168 |-> <<"u11C8">>, u3169 |-> <<"u11CC">>,
         u316A |-> <<"u11CE">>, u316B |-> <<"u11D3">>, u316C |-> <<"u11D7">>, u316D |-> <<"u11D9">>,
         u316E |-> <<"u111C">>, u316F |-> <<"u11DD">>, u3170 |-> <<"u11DF">>, u3171 |-> <<"u111D">>,
         u3172 |-> <<"u111E">>, u3173 |-> <<"u1120">>, u3174 |-> <<"u1122">>, u3175 |-> <<"u1123">>,
         u3176 |-> <<"u1127">>, u3177 |-> <<"u1129">>, u3178 |-> <<"u112B">>, u3179 |-> <<"u112C">>,
         u317A |-> <<"u112D">>, u317B |-> <<"u112E">>, u317C |-> <<"u112F">>, u317D |-> <<"u1132">>,
         u317E |-> <<"u1136">>, u317F |-> <<"u1140">>, u3180 |-> <<"u1147">>, u3181 |-> <<"u114C">>,
         u3182 |-> <<"u11F1">>, u3183 |-> <<"u11F2">>, u3184 |-> <<"u1157">>, u3185 |-> <<"u1158">>,
         u3186 |-> <<"u1159">>, u3187 |-> <<"u1184">>, u3188 |-> <<"u1185">>, u3189 |-> <<"u1188">>,
         u318A |-> <<"u1191">>, u318B |-> <<"u1192">>, u318C |-> <<"u1194">>, u318D |-> <<"u119E">>,
         u318E |-> <<"u11A1">>, u3192 |-> <<"u4E00">>, u3193 |-> <<"u4E8C">>, u3194 |-> <<"u4E09">>,
         u3195 |-> <<"u56DB">>, u3196 |-> <<"u4E0A">>, u3197 |-> <<"u4E2D">>, u3198 |-> <<"u4E0B">>,
         u3199 |-> <<"u7532">>, u319A |-> <<"u4E59">>, u319B |-> <<"u4E19">>, u319C |-> <<"u4E01">>,
         u319D |-> <<"u5929">>, u319E |-> <<"u5730">>, u319F |-> <<"u4EBA">>, u3200 |-> <<"(", "u1100", ")">>,
         u3201 |-> <<"(", "u1102", ")">>, u3202 |-> <<"(", "u1103", ")">>, u3203 |-> <<"(", "u1105", ")">>,
         u3204 |-> <<"(", "u1106", ")">>, u3205 |-> <<"(", "u1107", ")">>, u3206 |-> <<"(", "u1109", ")">>,
         u3207 |-> <<"(", "u110B", ")">>, u3208 |-> <<"(", "u110C", ")">>, u3209 |-> <<"(", "u110E", ")">>,
         u320A |-> <<"(", "u110F", ")">>, u320B |-> <<"(", "u1110", ")">>, u320C |-> <<"(", "u1111", ")">>,
         u320D |-> <<"(", "u1112", ")">>, u320E |-> <<"(", "u1100", "u1161", ")">>,
         u320F |-> <<"(", "u1102", "u1161", ")">>, u3210 |-> <<"(", "u1103", "u1161", ")">>,
         u3211 |-> <<"(", "u1105", "u1161", ")">>, u3212 |-> <<"(", "u1106", "u1161", ")">>,
         u3213 |-> <<"(", "u1107", "u1161", ")">>, u3214 |-> <<"(", "u1109", "u1161", ")">>,
         u3215 |-> <<"(", "u110B", "u1161", ")">>, u3216 |-> <<"(", "u110C", "u1161", ")">>,
         u3217 |-> <<"(", "u110E", "u1161", ")">>, u3218 |-> <<"(", "u110F", "u1161", ")">>,
         u3219 |-> <<"(", "u1110", "u1161", ")">>, u321A |-> <<"(", "u1111", "u1161", ")">>,
         u321B |-> <<"(", "u1112", "u1161", ")">>, u321C |-> <<"(", "u110C", "u116E", ")">>,
         u321D |-> <<"(", "u110B", "u1169", "u110C", "u1165", "u11AB", ")">>,
         u321E |-> <<"(", "u110B", "u1169", "u1112", "u116E", ")">>, u3220 |-> <<"(", "u4E00", ")">>,
         u3221 |-> <<"(", "u4E8C", ")">>, u3222 |-> <<"(", "u4E09", ")">>, u3223 |-> <<"(", "u56DB", ")">>,
         u3224 |-> <<"(", "u4E94", ")">>, u3225 |-> <<"(", "u516D", ")">>, u3226 |-> <<"(", "u4E03", ")">>,
         u3227 |-> <<"(", "u516B", ")">>, u3228 |-> <<"(", "u4E5D", ")">>, u3229 |-> <<"(", "u5341", ")">>,
         u322A |-> <<"(", "u6708", ")">>, u322B |-> <<"(", "u706B", ")">>, u322C |-> <<"(", "u6C34", ")">>,
         u322D |-> <<"(", "u6728", ")">>, u322E |-> <<"(", "u91D1", ")">>, u322F |-> <<"(", "u571F", ")">>,
         u3230 |-> <<"(", "u65E5", ")">>, u3231 |-> <<"(", "u682A", ")">>, u3232 |-> <<"(", "u6709", ")">>,
         u3233 |-> <<"(", "u793E", ")">>, u3234 |-> <<"(", "u540D", ")">>, u3235 |-> <<"(", "u7279", ")">>,
         u3236 |-> <<"(", "u8CA1", ")">>, u3237 |-> <<"(", "u795D", ")">>, u3238 |-> <<"(", "u52B4", ")">>,
         u3239 |-> <<"(", "u4EE3", ")">>, u323A |-> <<"(", "u547C", ")">>, u323B |-> <<"(", "u5B66", ")">>,
         u323C |-> <<"(", "u76E3", ")">>, u323D |-> <<"(", "u4F01", ")">>, u323E |-> <<"(", "u8CC7", ")">>,
         u323F |-> <<"(", "u5354", ")">>, u3240 |-> <<"(", "u796D", ")">>, u3241 |-> <<"(", "u4F11", ")">>,
         u3242 |-> <<"(", "u81EA", ")">>, u3243 |-> <<"(", "u81F3", ")">>, u3244 |-> <<"u554F">>,
         u3245 |-> <<"u5E7C">>, u3246 |-> <<"u6587">>, u3247 |-> <<"u7B8F">>, u3250 |-> <<"P", "T", "E">>,
         u3251 |-> <<"2", "1">>, u3252 |-> <<"2", "2">>, u3253 |-> <<"2", "3">>, u3254 |-> <<"2", "4">>,
         u3255 |-> <<"2", "5">>, u3256 |-> <<"2", "6">>, u3257 |-> <<"2", "7">>, u3258 |-> <<"2", "8">>,
         u3259 |-> <<"2", "9">>, u325A |-> <<"3", "0">>, u325B |-> <<"3", "1">>, u325C |-> <<"3", "2">>,
         u325D |-> <<"3", "3">>, u325E |-> <<"3", "4">>, u325F |-> <<"3", "5">>, u3260 |-> <<"u1100">>,
         u3261 |-> <<"u1102">>, u3262 |-> <<"u1103">>, u3263 |-> <<"u1105">>, u3264 |-> <<"u1106">>,
         u3265 |-> <<"u1107">>, u3266 |-> <<"u1109">>, u3267 |-> <<"u110B">>, u3268 |-> <<"u110C">>,
         u3269 |-> <<"u110E">>, u326A |-> <<"u110F">>, u326B |-> <<"u1110">>, u326C |-> <<"u1111">>,
         u326D |-> <<"u1112">>, u326E |-> <<"u1100", "u1161">>, u326F |-> <<"u1102", "u1161">>,
         u3270 |-> <<"u1103", "u1161">>, u3271 |-> <<"u1105", "u1161">>, u3272 |-> <<"u1106", "u1161">>,
         u3273 |-> <<"u1107", "u1161">>, u3274 |-> <<"u1109", "u1161">>, u3275 |-> <<"u110B", "u1161">>,
         u3276 |-> <<"u110C", "u1161">>, u3277 |-> <<"u110E", "u1161">>, u3278 |-> <<"u110F", "u1161">>,
         u3279 |-> <<"u1110", "u1161">>, u327A |-> <<"u1111", "u1161">>, u327B |-> <<"u1112", "u1161">>,
         u327C |-> <<"u110E", "u1161", "u11B7", "u1100", "u1169">>,
         u327D |-> <<"u110C", "u116E", "u110B", "u1174">>, u327E |-> <<"u110B", "u116E">>,
         u3280 |-> <<"u4E00">>, u3281 |-> <<"u4E8C">>, u3282 |-> <<"u4E09">>, u3283 |-> <<"u56DB">>,
         u3284 |-> <<"u4E94">>, u3285 |-> <<"u516D">>, u3286 |-> <<"u4E03">>, u3287 |-> <<"u516B">>,
         u3288 |-> <<"u4E5D">>, u3289 |-> <<"u5341">>, u328A |-> <<"u6708">>, u328B |-> <<"u706B">>,
         u328C |-> <<"u6C34">>, u328D |-> <<"u6728">>, u328E |-> <<"u91D1">>, u328F |-> <<"u571F">>,
         u3290 |-> <<"u65E5">>, u3291 |-> <<"u682A">>, u3292 |-> <<"u6709">>, u3293 |-> <<"u793E">>,
         u3294 |-> <<"u540D">>, u3295 |-> <<"u7279">>, u3296 |-> <<"u8CA1">>, u3297 |-> <<"u795D">>,
         u3298 |-> <<"u52B4">>, u3299 |-> <<"u79D8">>, u329A |-> <<"u7537">>, u329B |-> <<"u5973">>,
         u329C |-> <<"u9069">>, u329D |-> <<"u512A">>, u329E |-> <<"u5370">>, u329F |-> <<"u6CE8">>,
         u32A0 |-> <<"u9805">>, u32A1 |-> <<"u4F11">>, u32A2 |-> <<"u5199">>, u32A3 |-> <<"u6B63">>,
         u32A4 |-> <<"u4E0A">>, u32A5 |-> <<"u4E2D">>, u32A6 |-> <<"u4E0B">>, u32A7 |-> <<"u5DE6">>,
         u32A8 |-> <<"u53F3">>, u32A9 |-> <<"u533B">>, u32AA |-> <<"u5B97">>, u32AB |-> <<"u5B66">>,
         u32AC |-> <<"u76E3">>, u32AD |-> <<"u4F01">>, u32AE |-> <<"u8CC7">>, u32AF |-> <<"u5354">>,
         u32B0 |-> <<"u591C">>, u32B1 |-> <<"3", "6">>, u32B2 |-> <<"3", "7">>, u32B3 |-> <<"3", "8">>,
         u32B4 |-> <<"3", "9">>, u32B5 |-> <<"4", "0">>, u32B6 |-> <<"4", "1">>, u32B7 |-> <<"4", "2">>,
         u32B8 |-> <<"4", "3">>, u32B9 |-> <<"4", "4">>, u32BA |-> <<"4", "5">>, u32BB |-> <<"4", "6">>,
         u32BC |-> <<"4", "7">>, u32BD |-> <<"4", "8">>, u32BE |-> <<"4", "9">>, u32BF |-> <<"5", "0">>,
         u32C0 |-> <<"1", "u6708">>, u32C1 |-> <<"2", "u6708">>, u32C2 |-> <<"3", "u6708">>,
         u32C3 |-> <<"4", "u6708">>, u32C4 |-> <<"5", "u6708">>, u32C5 |-> <<"6", "u6708">>,
         u32C6 |-> <<"7", "u6708">>, u32C7 |-> <<"8", "u6708">>, u32C8 |-> <<"9", "u6708">>,
         u32C9 |-> <<"1", "0", "u6708">>, u32CA |-> <<"1", "1", "u6708">>, u32CB |-> <<"1", "2", "u6708">>,
         u32CC |-> <<"H", "g">>, u32CD |-> <<"e", "r", "g">>, u32CE |-> <<"e", "V">>,
         u32CF |-> <<"L", "T", "D">>, u32D0 |-> <<"u30A2">>, u32D1 |-> <<"u30A4">>, u32D2 |-> <<"u30A6">>,
         u32D3 |-> <<"u30A8">>, u32D4 |-> <<"u30AA">>, u32D5 |-> <<"u30AB">>, u32D6 |-> <<"u30AD">>,
         u32D7 |-> <<"u30AF">>, u32D8 |-> <<"u30B1">>, u32D9 |-> <<"u30B3">>, u32DA |-> <<"u30B5">>,
         u32DB |-> <<"u30B7">>, u32DC |-> <<"u30B9">>, u32DD |-> <<"u30BB">>, u32DE |-> <<"u30BD">>,
         u32DF |-> <<"u30BF">>, u32E0 |-> <<"u30C1">>, u32E1 |-> <<"u30C4">>, u32E2 |-> <<"u30C6">>,
         u32E3 |-> <<"u30C8">>, u32E4 |-> <<"u30CA">>, u32E5 |-> <<"u30CB">>, u32E6 |-> <<"u30CC">>,
         u32E7 |-> <<"u30CD">>, u32E8 |-> <<"u30CE">>, u32E9 |-> <<"u30CF">>, u32EA |-> <<"u30D2">>,
         u32EB |-> <<"u30D5">>, u32EC |-> <<"u30D8">>, u32ED |-> <<"u30DB">>, u32EE |-> <<"u30DE">>,
         u32EF |-> <<"u30DF">>, u32F0 |-> <<"u30E0">>, u32F1 |-> <<"u30E1">>, u32F2 |-> <<"u30E2">>,
         u32F3 |-> <<"u30E4">>, u32F4 |-> <<"u30E6">>, u32F5 |-> <<"u30E8">>, u32F6 |-> <<"u30E9">>,
         u32F7 |-> <<"u30EA">>, u32F8 |-> <<"u30EB">>, u32F9 |-> <<"u30EC">>, u32FA |-> <<"u30ED">>,
         u32FB |-> <<"u30EF">>, u32FC |-> <<"u30F0">>, u32FD |-> <<"u30F1">>, u32FE |-> <<"u30F2">>,
         u32FF |-> <<"u4EE4", "u548C">>, u3300 |-> <<"u30A2", "u30CF", "u309A", "u30FC", "u30C8">>,
         u3301 |-> <<"u30A2", "u30EB", "u30D5", "u30A1">>,
         u3302 |-> <<"u30A2", "u30F3", "u30D8", "u309A", "u30A2">>, u3303 |-> <<"u30A2", "u30FC", "u30EB">>,
         u3304 |-> <<"u30A4", "u30CB", "u30F3", "u30AF", "u3099">>, u3305 |-> <<"u30A4", "u30F3", "u30C1">>,
         u3306 |-> <<"u30A6", "u30A9", "u30F3">>,
         u3307 |-> <<"u30A8", "u30B9", "u30AF", "u30FC", "u30C8", "u3099">>,
         u3308 |-> <<"u30A8", "u30FC", "u30AB", "u30FC">>, u3309 |-> <<"u30AA", "u30F3", "u30B9">>,
         u330A |-> <<"u30AA", "u30FC", "u30E0">>, u330B |-> <<"u30AB", "u30A4", "u30EA">>,
         u330C |-> <<"u30AB", "u30E9", "u30C3", "u30C8">>, u330D |-> <<"u30AB", "u30ED", "u30EA", "u30FC">>,
         u330E |-> <<"u30AB", "u3099", "u30ED", "u30F3">>, u330F |-> <<"u30AB", "u3099", "u30F3", "u30DE">>,
         u3310 |-> <<"u30AD", "u3099", "u30AB", "u3099">>, u3311 |-> <<"u30AD", "u3099", "u30CB", "u30FC">>,
         u3312 |-> <<"u30AD", "u30E5", "u30EA", "u30FC">>,
         u3313 |-> <<"u30AD", "u3099", "u30EB", "u30BF", "u3099", "u30FC">>, u3314 |-> <<"u30AD", "u30ED">>,
         u3315 |-> <<"u30AD", "u30ED", "u30AF", "u3099", "u30E9", "u30E0">>,
         u3316 |-> <<"u30AD", "u30ED", "u30E1", "u30FC", "u30C8", "u30EB">>,
         u3317 |-> <<"u30AD", "u30ED", "u30EF", "u30C3", "u30C8">>,
         u3318 |-> <<"u30AF", "u3099", "u30E9", "u30E0">>,
         u3319 |-> <<"u30AF", "u3099", "u30E9", "u30E0", "u30C8", "u30F3">>,
         u331A |-> <<"u30AF", "u30EB", "u30BB", "u3099", "u30A4", "u30ED">>,
         u331B |-> <<"u30AF", "u30ED", "u30FC", "u30CD">>, u331C |-> <<"u30B1", "u30FC", "u30B9">>,
         u331D |-> <<"u30B3", "u30EB", "u30CA">>, u331E |-> <<"u30B3", "u30FC", "u30DB", "u309A">>,
         u331F |-> <<"u30B5", "u30A4", "u30AF", "u30EB">>,
         u3320 |-> <<"u30B5", "u30F3", "u30C1", "u30FC", "u30E0">>,
         u3321 |-> <<"u30B7", "u30EA", "u30F3", "u30AF", "u3099">>, u3322 |-> <<"u30BB", "u30F3", "u30C1">>,
         u3323 |-> <<"u30BB", "u30F3", "u30C8">>, u3324 |-> <<"u30BF", "u3099", "u30FC", "u30B9">>,
         u3325 |-> <<"u30C6", "u3099", "u30B7">>, u3326 |-> <<"u30C8", "u3099", "u30EB">>,
         u3327 |-> <<"u30C8", "u30F3">>, u3328 |-> <<"u30CA", "u30CE">>,
         u3329 |-> <<"u30CE", "u30C3", "u30C8">>, u332A |-> <<"u30CF", "u30A4", "u30C4">>,
         u332B |-> <<"u30CF", "u309A", "u30FC", "u30BB", "u30F3", "u30C8">>,
         u332C |-> <<"u30CF", "u309A", "u30FC", "u30C4">>,
         u332D |-> <<"u30CF", "u3099", "u30FC", "u30EC", "u30EB">>,
         u332E |-> <<"u30D2", "u309A", "u30A2", "u30B9", "u30C8", "u30EB">>,
         u332F |-> <<"u30D2", "u309A", "u30AF", "u30EB">>, u3330 |-> <<"u30D2", "u309A", "u30B3">>,
         u3331 |-> <<"u30D2", "u3099", "u30EB">>,
         u3332 |-> <<"u30D5", "u30A1", "u30E9", "u30C3", "u30C8", "u3099">>,
         u3333 |-> <<"u30D5", "u30A3", "u30FC", "u30C8">>,
         u3334 |-> <<"u30D5", "u3099", "u30C3", "u30B7", "u30A7", "u30EB">>,
         u3335 |-> <<"u30D5", "u30E9", "u30F3">>, u3336 |-> <<"u30D8", "u30AF", "u30BF", "u30FC", "u30EB">>,
         u3337 |-> <<"u30D8", "u309A", "u30BD">>, u3338 |-> <<"u30D8", "u309A", "u30CB", "u30D2">>,
         u3339 |-> <<"u30D8", "u30EB", "u30C4">>, u333A |-> <<"u30D8", "u309A", "u30F3", "u30B9">>,
         u333B |-> <<"u30D8", "u309A", "u30FC", "u30B7", "u3099">>,
         u333C |-> <<"u30D8", "u3099", "u30FC", "u30BF">>,
         u333D |-> <<"u30DB", "u309A", "u30A4", "u30F3", "u30C8">>,
         u333E |-> <<"u30DB", "u3099", "u30EB", "u30C8">>, u333F |-> <<"u30DB", "u30F3">>,
         u3340 |-> <<"u30DB", "u309A", "u30F3", "u30C8", "u3099">>, u3341 |-> <<"u30DB", "u30FC", "u30EB">>,
         u3342 |-> <<"u30DB", "u30FC", "u30F3">>, u3343 |-> <<"u30DE", "u30A4", "u30AF", "u30ED">>,
         u3344 |-> <<"u30DE", "u30A4", "u30EB">>, u3345 |-> <<"u30DE", "u30C3", "u30CF">>,
         u3346 |-> <<"u30DE", "u30EB", "u30AF">>, u3347 |-> <<"u30DE", "u30F3", "u30B7", "u30E7", "u30F3">>,
         u3348 |-> <<"u30DF", "u30AF", "u30ED", "u30F3">>, u3349 |-> <<"u30DF", "u30EA">>,
         u334A |-> <<"u30DF", "u30EA", "u30CF", "u3099", "u30FC", "u30EB">>,
         u334B |-> <<"u30E1", "u30AB", "u3099">>, u334C |-> <<"u30E1", "u30AB", "u3099", "u30C8", "u30F3">>,
         u334D |-> <<"u30E1", "u30FC", "u30C8", "u30EB">>, u334E |-> <<"u30E4", "u30FC", "u30C8", "u3099">>,
         u334F |-> <<"u30E4", "u30FC", "u30EB">>, u3350 |-> <<"u30E6", "u30A2", "u30F3">>,
         u3351 |-> <<"u30EA", "u30C3", "u30C8", "u30EB">>, u3352 |-> <<"u30EA", "u30E9">>,
         u3353 |-> <<"u30EB", "u30D2", "u309A", "u30FC">>,
         u3354 |-> <<"u30EB", "u30FC", "u30D5", "u3099", "u30EB">>, u3355 |-> <<"u30EC", "u30E0">>,
         u3356 |-> <<"u30EC", "u30F3", "u30C8", "u30B1", "u3099", "u30F3">>,
         u3357 |-> <<"u30EF", "u30C3", "u30C8">>, u3358 |-> <<"0", "u70B9">>, u3359 |-> <<"1", "u70B9">>,
         u335A |-> <<"2", "u70B9">>, u335B |-> <<"3", "u70B9">>, u335C |-> <<"4", "u70B9">>,
         u335D |-> <<"5", "u70B9">>, u335E |-> <<"6", "u70B9">>, u335F |-> <<"7", "u70B9">>,
         u3360 |-> <<"8", "u70B9">>, u3361 |-> <<"9", "u70B9">>, u3362 |-> <<"1", "0", "u70B9">>,
         u3363 |-> <<"1", "1", "u70B9">>, u3364 |-> <<"1", "2", "u70B9">>, u3365 |-> <<"1", "3", "u70B9">>,
         u3366 |-> <<"1", "4", "u70B9">>, u3367 |-> <<"1", "5", "u70B9">>, u3368 |-> <<"1", "6", "u70B9">>,
         u3369 |-> <<"1", "7", "u70B9">>, u336A |-> <<"1", "8", "u70B9">>, u336B |-> <<"1", "9", "u70B9">>,
         u336C |-> <<"2", "0", "u70B9">>, u336D |-> <<"2", "1", "u70B9">>, u336E |-> <<"2", "2", "u70B9">>,
         u336F |-> <<"2", "3", "u70B9">>, u3370 |-> <<"2", "4", "u70B9">>, u3371 |-> <<"h", "P", "a">>,
         u3372 |-> <<"d", "a">>, u3373 |-> <<"A", "U">>, u3374 |-> <<"b", "a", "r">>, u3375 |-> <<"o", "V">>,
         u3376 |-> <<"p", "c">>, u3377 |-> <<"d", "m">>, u3378 |-> <<"d", "m", "2">>,
         u3379 |-> <<"d", "m", "3">>, u337A |-> <<"I", "U">>, u337B |-> <<"u5E73", "u6210">>,
         u337C |-> <<"u662D", "u548C">>, u337D |-> <<"u5927", "u6B63">>, u337E |-> <<"u660E", "u6CBB">>,
         u337F |-> <<"u682A", "u5F0F", "u4F1A", "u793E">>, u3380 |-> <<"p", "A">>, u3381 |-> <<"n", "A">>,
         u3382 |-> <<"u03BC", "A">>, u3383 |-> <<"m", "A">>, u3384 |-> <<"k", "A">>, u3385 |-> <<"K", "B">>,
         u3386 |-> <<"M", "B">>, u3387 |-> <<"G", "B">>, u3388 |-> <<"c", "a", "l">>,
         u3389 |-> <<"k", "c", "a", "l">>, u338A |-> <<"p", "F">>, u338B |-> <<"n", "F">>,
         u338C |-> <<"u03BC", "F">>, u338D |-> <<"u03BC", "g">>, u338E |-> <<"m", "g">>,
         u338F |-> <<"k", "g">>, u3390 |-> <<"H", "z">>, u3391 |-> <<"k", "H", "z">>,
         u3392 |-> <<"M", "H", "z">>, u3393 |-> <<"G", "H", "z">>, u3394 |-> <<"T", "H", "z">>,
         u3395 |-> <<"u03BC", "l">>, u3396 |-> <<"m", "l">>, u3397 |-> <<"d", "l">>, u3398 |-> <<"k", "l">>,
         u3399 |-> <<"f", "m">>, u339A |-> <<"n", "m">>, u339B |-> <<"u03BC", "m">>, u339C |-> <<"m", "m">>,
         u339D |-> <<"c", "m">>, u339E |-> <<"k", "m">>, u339F |-> <<"m", "m", "2">>,
         u33A0 |-> <<"c", "m", "2">>, u33A1 |-> <<"m", "2">>, u33A2 |-> <<"k", "m", "2">>,
         u33A3 |-> <<"m", "m", "3">>, u33A4 |-> <<"c", "m", "3">>, u33A5 |-> <<"m", "3">>,
         u33A6 |-> <<"k", "m", "3">>, u33A7 |-> <<"m", "u2215", "s">>, u33A8 |-> <<"m", "u2215", "s", "2">>,
         u33A9 |-> <<"P", "a">>, u33AA |-> <<"k", "P", "a">>, u33AB |-> <<"M", "P", "a">>,
         u33AC |-> <<"G", "P", "a">>, u33AD |-> <<"r", "a", "d">>, u33AE |-> <<"r", "a", "d", "u2215", "s">>,
         u33AF |-> <<"r", "a", "d", "u2215", "s", "2">>, u33B0 |-> <<"p", "s">>, u33B1 |-> <<"n", "s">>,
         u33B2 |-> <<"u03BC", "s">>, u33B3 |-> <<"m", "s">>, u33B4 |-> <<"p", "V">>, u33B5 |-> <<"n", "V">>,
         u33B6 |-> <<"u03BC", "V">>, u33B7 |-> <<"m", "V">>, u33B8 |-> <<"k", "V">>, u33B9 |-> <<"M", "V">>,
         u33BA |-> <<"p", "W">>, u33BB |-> <<"n", "W">>, u33BC |-> <<"u03BC", "W">>, u33BD |-> <<"m", "W">>,
         u33BE |-> <<"k", "W">>, u33BF |-> <<"M", "W">>, u33C0 |-> <<"k", "u03A9">>,
         u33C1 |-> <<"M", "u03A9">>, u33C2 |-> <<"a", ".", "m", ".">>, u33C3 |-> <<"B", "q">>,
         u33C4 |-> <<"c", "c">>, u33C5 |-> <<"c", "d">>, u33C6 |-> <<"C", "u2215", "k", "g">>,
         u33C7 |-> <<"C", "o", ".">>, u33C8 |-> <<"d", "B">>, u33C9 |-> <<"G", "y">>, u33CA |-> <<"h", "a">>,
         u33CB |-> <<"H", "P">>, u33CC |-> <<"i", "n">>, u33CD |-> <<"K", "K">>, u33CE |-> <<"K", "M">>,
         u33CF |-> <<"k", "t">>, u33D0 |-> <<"l", "m">>, u33D1 |-> <<"l", "n">>, u33D2 |-> <<"l", "o", "g">>,
         u33D3 |-> <<"l", "x">>, u33D4 |-> <<"m", "b">>, u33D5 |-> <<"m", "i", "l">>,
         u33D6 |-> <<"m", "o", "l">>, u33D7 |-> <<"P", "H">>, u33D8 |-> <<"p", ".", "m", ".">>,
         u33D9 |-> <<"P", "P", "M">>, u33DA |-> <<"P", "R">>, u33DB |-> <<"s", "r">>, u33DC |-> <<"S", "v">>,
         u33DD |-> <<"W", "b">>, u33DE |-> <<"V", "u2215", "m">>, u33DF |-> <<"A", "u2215", "m">>,
         u33E0 |-> <<"1", "u65E5">>, u33E1 |-> <<"2", "u65E5">>, u33E2 |-> <<"3", "u65E5">>,
         u33E3 |-> <<"4", "u65E5">>, u33E4 |-> <<"5", "u65E5">>, u33E5 |-> <<"6", "u65E5">>,
         u33E6 |-> <<"7", "u65E5">>, u33E7 |-> <<"8", "u65E5">>, u33E8 |-> <<"9", "u65E5">>,
         u33E9 |-> <<"1", "0", "u65E5">>, u33EA |-> <<"1", "1", "u65E5">>, u33EB |-> <<"1", "2", "u65E5">>,
         u33EC |-> <<"1", "3", "u65E5">>, u33ED |-> <<"1", "4", "u65E5">>, u33EE |-> <<"1", "5", "u65E5">>,
         u33EF |-> <<"1", "6", "u65E5">>, u33F0 |-> <<"1", "7", "u65E5">>, u33F1 |-> <<"1", "8", "u65E5">>,
         u33F2 |-> <<"1", "9", "u65E5">>, u33F3 |-> <<"2", "0", "u65E5">>, u33F4 |-> <<"2", "1", "u65E5">>,
         u33F5 |-> <<"2", "2", "u65E5">>, u33F6 |-> <<"2", "3", "u65E5">>, u33F7 |-> <<"2", "4", "u65E5">>,
         u33F8 |-> <<"2", "5", "u65E5">>, u33F9 |-> <<"2", "6", "u65E5">>, u33FA |-> <<"2", "7", "u65E5">>,
         u33FB |-> <<"2", "8", "u65E5">>, u33FC |-> <<"2", "9", "u65E5">>, u33FD |-> <<"3", "0", "u65E5">>,
         u33FE |-> <<"3", "1", "u65E5">>, u33FF |-> <<"g", "a", "l">>, uA69C |-> <<"u044A">>,
         uA69D |-> <<"u044C">>, uA770 |-> <<"uA76F">>, uA7F2 |-> <<"C">>, uA7F3 |-> <<"F">>,
         uA7F4 |-> <<"Q">>, uA7F8 |-> <<"u0126">>, uA7F9 |-> <<"u0153">>, uAB5C |-> <<"uA727">>,
         uAB5D |-> <<"uAB37">>, uAB5E |-> <<"u026B">>, uAB5F |-> <<"uAB52">>, uAB69 |-> <<"u028D">>,
         uF900 |-> <<"u8C48">>, uF901 |-> <<"u66F4">>, uF902 |-> <<"u8ECA">>, uF903 |-> <<"u8CC8">>,
         uF904 |-> <<"u6ED1">>, uF905 |-> <<"u4E32">>, uF906 |-> <<"u53E5">>, uF907 |-> <<"u9F9C">>,
         uF908 |-> <<"u9F9C">>, uF909 |-> <<"u5951">>, uF90A |-> <<"u91D1">>, uF90B |-> <<"u5587">>,
         uF90C |-> <<"u5948">>, uF90D |-> <<"u61F6">>, uF90E |-> <<"u7669">>, uF90F |-> <<"u7F85">>,
         uF910 |-> <<"u863F">>, uF911 |-> <<"u87BA">>, uF912 |-> <<"u88F8">>, uF913 |-> <<"u908F">>,
         uF914 |-> <<"u6A02">>, uF915 |-> <<"u6D1B">>, uF916 |-> <<"u70D9">>, uF917 |-> <<"u73DE">>,
         uF918 |-> <<"u843D">>, uF919 |-> <<"u916A">>, uF91A |-> <<"u99F1">>, uF91B |-> <<"u4E82">>,
         uF91C |-> <<"u5375">>, uF91D |-> <<"u6B04">>, uF91E |-> <<"u721B">>, uF91F |-> <<"u862D">>,
         uF920 |-> <<"u9E1E">>, uF921 |-> <<"u5D50">>, uF922 |-> <<"u6FEB">>, uF923 |-> <<"u85CD">>,
         uF924 |-> <<"u8964">>, uF925 |-> <<"u62C9">>, uF926 |-> <<"u81D8">>, uF927 |-> <<"u881F">>,
         uF928 |-> <<"u5ECA">>, uF929 |-> <<"u6717">>, uF92A |-> <<"u6D6A">>, uF92B |-> <<"u72FC">>,
         uF92C |-> <<"u90CE">>, uF92D |-> <<"u4F86">>, uF92E |-> <<"u51B7">>, uF92F |-> <<"u52DE">>,
         uF930 |-> <<"u64C4">>, uF931 |-> <<"u6AD3">>, uF932 |-> <<"u7210">>, uF933 |-> <<"u76E7">>,
         uF934 |-> <<"u8001">>, uF935 |-> <<"u8606">>, uF936 |-> <<"u865C">>, uF937 |-> <<"u8DEF">>,
         uF938 |-> <<"u9732">>, uF939 |-> <<"u9B6F">>, uF93A |-> <<"u9DFA">>, uF93B |-> <<"u788C">>,
         uF93C |-> <<"u797F">>, uF93D |-> <<"u7DA0">>, uF93E |-> <<"u83C9">>, uF93F |-> <<"u9304">>,
         uF940 |-> <<"u9E7F">>, uF941 |-> <<"u8AD6">>, uF942 |-> <<"u58DF">>, uF943 |-> <<"u5F04">>,
         uF944 |-> <<"u7C60">>, uF945 |-> <<"u807E">>, uF946 |-> <<"u7262">>, uF947 |-> <<"u78CA">>,
         uF948 |-> <<"u8CC2">>, uF949 |-> <<"u96F7">>, uF94A |-> <<"u58D8">>, uF94B |-> <<"u5C62">>,
         uF94C |-> <<"u6A13">>, uF94D |-> <<"u6DDA">>, uF94E |-> <<"u6F0F">>, uF94F |-> <<"u7D2F">>,
         uF950 |-> <<"u7E37">>, uF951 |-> <<"u964B">>, uF952 |-> <<"u52D2">>, uF953 |-> <<"u808B">>,
         uF954 |-> <<"u51DC">>, uF955 |-> <<"u51CC">>, uF956 |-> <<"u7A1C">>, uF957 |-> <<"u7DBE">>,
         uF958 |-> <<"u83F1">>, uF959 |-> <<"u9675">>, uF95A |-> <<"u8B80">>, uF95B |-> <<"u62CF">>,
         uF95C |-> <<"u6A02">>, uF95D |-> <<"u8AFE">>, uF95E |-> <<"u4E39">>, uF95F |-> <<"u5BE7">>,
         uF960 |-> <<"u6012">>, uF961 |-> <<"u7387">>, uF962 |-> <<"u7570">>, uF963 |-> <<"u5317">>,
         uF964 |-> <<"u78FB">>, uF965 |-> <<"u4FBF">>, uF966 |-> <<"u5FA9">>, uF967 |-> <<"u4E0D">>,
         uF968 |-> <<"u6CCC">>, uF969 |-> <<"u6578">>, uF96A |-> <<"u7D22">>, uF96B |-> <<"u53C3">>,
         uF96C |-> <<"u585E">>, uF96D |-> <<"u7701">>, uF96E |-> <<"u8449">>, uF96F |-> <<"u8AAA">>,
         uF970 |-> <<"u6BBA">>, uF971 |-> <<"u8FB0">>, uF972 |-> <<"u6C88">>, uF973 |-> <<"u62FE">>,
         uF974 |-> <<"u82E5">>, uF975 |-> <<"u63A0">>, uF976 |-> <<"u7565">>, uF977 |-> <<"u4EAE">>,
         uF978 |-> <<"u5169">>, uF979 |-> <<"u51C9">>, uF97A |-> <<"u6881">>, uF97B |-> <<"u7CE7">>,
         uF97C |-> <<"u826F">>, uF97D |-> <<"u8AD2">>, uF97E |-> <<"u91CF">>, uF97F |-> <<"u52F5">>,
         uF980 |-> <<"u5442">>, uF981 |-> <<"u5973">>, uF982 |-> <<"u5EEC">>, uF983 |-> <<"u65C5">>,
         uF984 |-> <<"u6FFE">>, uF985 |-> <<"u792A">>, uF986 |-> <<"u95AD">>, uF987 |-> <<"u9A6A">>,
         uF988 |-> <<"u9E97">>, uF989 |-> <<"u9ECE">>, uF98A |-> <<"u529B">>, uF98B |-> <<"u66C6">>,
         uF98C |-> <<"u6B77">>, uF98D |-> <<"u8F62">>, uF98E |-> <<"u5E74">>, uF98F |-> <<"u6190">>,
         uF990 |-> <<"u6200">>, uF991 |-> <<"u649A">>, uF992 |-> <<"u6F23">>, uF993 |-> <<"u7149">>,
         uF994 |-> <<"u7489">>, uF995 |-> <<"u79CA">>, uF996 |-> <<"u7DF4">>, uF997 |-> <<"u806F">>,
         uF998 |-> <<"u8F26">>, uF999 |-> <<"u84EE">>, uF99A |-> <<"u9023">>, uF99B |-> <<"u934A">>,
         uF99C |-> <<"u5217">>, uF99D |-> <<"u52A3">>, uF99E |-> <<"u54BD">>, uF99F |-> <<"u70C8">>,
         uF9A0 |-> <<"u88C2">>, uF9A1 |-> <<"u8AAA">>, uF9A2 |-> <<"u5EC9">>, uF9A3 |-> <<"u5FF5">>,
         uF9A4 |-> <<"u637B">>, uF9A5 |-> <<"u6BAE">>, uF9A6 |-> <<"u7C3E">>, uF9A7 |-> <<"u7375">>,
         uF9A8 |-> <<"u4EE4">>, uF9A9 |-> <<"u56F9">>, uF9AA |-> <<"u5BE7">>, uF9AB |-> <<"u5DBA">>,
         uF9AC |-> <<"u601C">>, uF9AD |-> <<"u73B2">>, uF9AE |-> <<"u7469">>, uF9AF |-> <<"u7F9A">>,
         uF9B0 |-> <<"u8046">>, uF9B1 |-> <<"u9234">>, uF9B2 |-> <<"u96F6">>, uF9B3 |-> <<"u9748">>,
         uF9B4 |-> <<"u9818">>, uF9B5 |-> <<"u4F8B">>, uF9B6 |-> <<"u79AE">>, uF9B7 |-> <<"u91B4">>,
         uF9B8 |-> <<"u96B8">>, uF9B9 |-> <<"u60E1">>, uF9BA |-> <<"u4E86">>, uF9BB |-> <<"u50DA">>,
         uF9BC |-> <<"u5BEE">>, uF9BD |-> <<"u5C3F">>, uF9BE |-> <<"u6599">>, uF9BF |-> <<"u6A02">>,
         uF9C0 |-> <<"u71CE">>, uF9C1 |-> <<"u7642">>, uF9C2 |-> <<"u84FC">>, uF9C3 |-> <<"u907C">>,
         uF9C4 |-> <<"u9F8D">>, uF9C5 |-> <<"u6688">>, uF9C6 |-> <<"u962E">>, uF9C7 |-> <<"u5289">>,
         uF9C8 |-> <<"u677B">>, uF9C9 |-> <<"u67F3">>, uF9CA |-> <<"u6D41">>, uF9CB |-> <<"u6E9C">>,
         uF9CC |-> <<"u7409">>, uF9CD |-> <<"u7559">>, uF9CE |-> <<"u786B">>, uF9CF |-> <<"u7D10">>,
         uF9D0 |-> <<"u985E">>, uF9D1 |-> <<"u516D">>, uF9D2 |-> <<"u622E">>, uF9D3 |-> <<"u9678">>,
         uF9D4 |-> <<"u502B">>, uF9D5 |-> <<"u5D19">>, uF9D6 |-> <<"u6DEA">>, uF9D7 |-> <<"u8F2A">>,
         uF9D8 |-> <<"u5F8B">>, uF9D9 |-> <<"u6144">>, uF9DA |-> <<"u6817">>, uF9DB |-> <<"u7387">>,
         uF9DC |-> <<"u9686">>, uF9DD |-> <<"u5229">>, uF9DE |-> <<"u540F">>, uF9DF |-> <<"u5C65">>,
         uF9E0 |-> <<"u6613">>, uF9E1 |-> <<"u674E">>, uF9E2 |-> <<"u68A8">>, uF9E3 |-> <<"u6CE5">>,
         uF9E4 |-> <<"u7406">>, uF9E5 |-> <<"u75E2">>, uF9E6 |-> <<"u7F79">>, uF9E7 |-> <<"u88CF">>,
         uF9E8 |-> <<"u88E1">>, uF9E9 |-> <<"u91CC">>, uF9EA |-> <<"u96E2">>, uF9EB |-> <<"u533F">>,
         uF9EC |-> <<"u6EBA">>, uF9ED |-> <<"u541D">>, uF9EE |-> <<"u71D0">>, uF9EF |-> <<"u7498">>,
         uF9F0 |-> <<"u85FA">>, uF9F1 |-> <<"u96A3">>, uF9F2 |-> <<"u9C57">>, uF9F3 |-> <<"u9E9F">>,
         uF9F4 |-> <<"u6797">>, uF9F5 |-> <<"u6DCB">>, uF9F6 |-> <<"u81E8">>, uF9F7 |-> <<"u7ACB">>,
         uF9F8 |-> <<"u7B20">>, uF9F9 |-> <<"u7C92">>, uF9FA |-> <<"u72C0">>, uF9FB |-> <<"u7099">>,
         uF9FC |-> <<"u8B58">>, uF9FD |-> <<"u4EC0">>, uF9FE |-> <<"u8336">>, uF9FF |-> <<"u523A">>,
         uFA00 |-> <<"u5207">>, uFA01 |-> <<"u5EA6">>, uFA02 |-> <<"u62D3">>, uFA03 |-> <<"u7CD6">>,
         uFA04 |-> <<"u5B85">>, uFA05 |-> <<"u6D1E">>, uFA06 |-> <<"u66B4">>, uFA07 |-> <<"u8F3B">>,
         uFA08 |-> <<"u884C">>, uFA09 |-> <<"u964D">>, uFA0A |-> <<"u898B">>, uFA0B |-> <<"u5ED3">>,
         uFA0C |-> <<"u5140">>, uFA0D |-> <<"u55C0">>, uFA10 |-> <<"u585A">>, uFA12 |-> <<"u6674">>,
         uFA15 |-> <<"u51DE">>, uFA16 |-> <<"u732A">>, uFA17 |-> <<"u76CA">>, uFA18 |-> <<"u793C">>,
         uFA19 |-> <<"u795E">>, uFA1A |-> <<"u7965">>, uFA1B |-> <<"u798F">>, uFA1C |-> <<"u9756">>,
         uFA1D |-> <<"u7CBE">>, uFA1E |-> <<"u7FBD">>, uFA20 |-> <<"u8612">>, uFA22 |-> <<"u8AF8">>,
         uFA25 |-> <<"u9038">>, uFA26 |-> <<"u90FD">>, uFA2A |-> <<"u98EF">>, uFA2B |-> <<"u98FC">>,
         uFA2C |-> <<"u9928">>, uFA2D |-> <<"u9DB4">>, uFA2E |-> <<"u90DE">>, uFA2F |-> <<"u96B7">>,
         uFA30 |-> <<"u4FAE">>, uFA31 |-> <<"u50E7">>, uFA32 |-> <<"u514D">>, uFA33 |-> <<"u52C9">>,
         uFA34 |-> <<"u52E4">>, uFA35 |-> <<"u5351">>, uFA36 |-> <<"u559D">>, uFA37 |-> <<"u5606">>,
         uFA38 |-> <<"u5668">>, uFA39 |-> <<"u5840">>, uFA3A |-> <<"u58A8">>, uFA3B |-> <<"u5C64">>,
         uFA3C |-> <<"u5C6E">>, uFA3D |-> <<"u6094">>, uFA3E |-> <<"u6168">>, uFA3F |-> <<"u618E">>,
         uFA40 |-> <<"u61F2">>, uFA41 |-> <<"u654F">>, uFA42 |-> <<"u65E2">>, uFA43 |-> <<"u6691">>,
         uFA44 |-> <<"u6885">>, uFA45 |-> <<"u6D77">>, uFA46 |-> <<"u6E1A">>, uFA47 |-> <<"u6F22">>,
         uFA48 |-> <<"u716E">>, uFA49 |-> <<"u722B">>, uFA4A |-> <<"u7422">>, uFA4B |-> <<"u7891">>,
         uFA4C |-> <<"u793E">>, uFA4D |-> <<"u7949">>, uFA4E |-> <<"u7948">>, uFA4F |-> <<"u7950">>,
         uFA50 |-> <<"u7956">>, uFA51 |-> <<"u795D">>, uFA52 |-> <<"u798D">>, uFA53 |-> <<"u798E">>,
         uFA54 |-> <<"u7A40">>, uFA55 |-> <<"u7A81">>, uFA56 |-> <<"u7BC0">>, uFA57 |-> <<"u7DF4">>,
         uFA58 |-> <<"u7E09">>, uFA59 |-> <<"u7E41">>, uFA5A |-> <<"u7F72">>, uFA5B |-> <<"u8005">>,
         uFA5C |-> <<"u81ED">>, uFA5D |-> <<"u8279">>, uFA5E |-> <<"u8279">>, uFA5F |-> <<"u8457">>,
         uFA60 |-> <<"u8910">>, uFA61 |-> <<"u8996">>, uFA62 |-> <<"u8B01">>, uFA63 |-> <<"u8B39">>,
         uFA64 |-> <<"u8CD3">>, uFA65 |-> <<"u8D08">>, uFA66 |-> <<"u8FB6">>, uFA67 |-> <<"u9038">>,
         uFA68 |-> <<"u96E3">>, uFA69 |-> <<"u97FF">>, uFA6A |-> <<"u983B">>, uFA6B |-> <<"u6075">>,
         uFA6C |-> <<"u242EE">>, uFA6D |-> <<"u8218">>, uFA70 |-> <<"u4E26">>, uFA71 |-> <<"u51B5">>,
         uFA72 |-> <<"u5168">>, uFA73 |-> <<"u4F80">>, uFA74 |-> <<"u5145">>, uFA75 |-> <<"u5180">>,
         uFA76 |-> <<"u52C7">>, uFA77 |-> <<"u52FA">>, uFA78 |-> <<"u559D">>, uFA79 |-> <<"u5555">>,
         uFA7A |-> <<"u5599">>, uFA7B |-> <<"u55E2">>, uFA7C |-> <<"u585A">>, uFA7D |-> <<"u58B3">>,
         uFA7E |-> <<"u5944">>, uFA7F |-> <<"u5954">>, uFA80 |-> <<"u5A62">>, uFA81 |-> <<"u5B28">>,
         uFA82 |-> <<"u5ED2">>, uFA83 |-> <<"u5ED9">>, uFA84 |-> <<"u5F69">>, uFA85 |-> <<"u5FAD">>,
         uFA86 |-> <<"u60D8">>, uFA87 |-> <<"u614E">>, uFA88 |-> <<"u6108">>, uFA89 |-> <<"u618E">>,
         uFA8A |-> <<"u6160">>, uFA8B |-> <<"u61F2">>, uFA8C |-> <<"u6234">>, uFA8D |-> <<"u63C4">>,
         uFA8E |-> <<"u641C">>, uFA8F |-> <<"u6452">>, uFA90 |-> <<"u6556">>, uFA91 |-> <<"u6674">>,
         uFA92 |-> <<"u6717">>, uFA93 |-> <<"u671B">>, uFA94 |-> <<"u6756">>, uFA95 |-> <<"u6B79">>,
         uFA96 |-> <<"u6BBA">>, uFA97 |-> <<"u6D41">>, uFA98 |-> <<"u6EDB">>, uFA99 |-> <<"u6ECB">>,
         uFA9A |-> <<"u6F22">>, uFA9B |-> <<"u701E">>, uFA9C |-> <<"u716E">>, uFA9D |-> <<"u77A7">>,
         uFA9E |-> <<"u7235">>, uFA9F |-> <<"u72AF">>, uFAA0 |-> <<"u732A">>, uFAA1 |-> <<"u7471">>,
         uFAA2 |-> <<"u7506">>, uFAA3 |-> <<"u753B">>, uFAA4 |-> <<"u761D">>, uFAA5 |-> <<"u761F">>,
         uFAA6 |-> <<"u76CA">>, uFAA7 |-> <<"u76DB">>, uFAA8 |-> <<"u76F4">>, uFAA9 |-> <<"u774A">>,
         uFAAA |-> <<"u7740">>, uFAAB |-> <<"u78CC">>, uFAAC |-> <<"u7AB1">>, uFAAD |-> <<"u7BC0">>,
         uFAAE |-> <<"u7C7B">>, uFAAF |-> <<"u7D5B">>, uFAB0 |-> <<"u7DF4">>, uFAB1 |-> <<"u7F3E">>,
         uFAB2 |-> <<"u8005">>, uFAB3 |-> <<"u8352">>, uFAB4 |-> <<"u83EF">>, uFAB5 |-> <<"u8779">>,
         uFAB6 |-> <<"u8941">>, uFAB7 |-> <<"u8986">>, uFAB8 |-> <<"u8996">>, uFAB9 |-> <<"u8ABF">>,
         uFABA |-> <<"u8AF8">>, uFABB |-> <<"u8ACB">>, uFABC |-> <<"u8B01">>, uFABD |-> <<"u8AFE">>,
         uFABE |-> <<"u8AED">>, uFABF |-> <<"u8B39">>, uFAC0 |-> <<"u8B8A">>, uFAC1 |-> <<"u8D08">>,
         uFAC2 |-> <<"u8F38">>, uFAC3 |-> <<"u9072">>, uFAC4 |-> <<"u9199">>, uFAC5 |-> <<"u9276">>,
         uFAC6 |-> <<"u967C">>, uFAC7 |-> <<"u96E3">>, uFAC8 |-> <<"u9756">>, uFAC9 |-> <<"u97DB">>,
         uFACA |-> <<"u97FF">>, uFACB |-> <<"u980B">>, uFACC |-> <<"u983B">>, uFACD |-> <<"u9B12">>,
         uFACE |-> <<"u9F9C">>, uFACF |-> <<"u2284A">>, uFAD0 |-> <<"u22844">>, uFAD1 |-> <<"u233D5">>,
         uFAD2 |-> <<"u3B9D">>, uFAD3 |-> <<"u4018">>, uFAD4 |-> <<"u4039">>, uFAD5 |-> <<"u25249">>,
         uFAD6 |-> <<"u25CD0">>, uFAD7 |-> <<"u27ED3">>, uFAD8 |-> <<"u9F43">>, uFAD9 |-> <<"u9F8E">>,
         uFB00 |-> <<"f", "f">>, uFB01 |-> <<"f", "i">>, uFB02 |-> <<"f", "l">>, uFB03 |-> <<"f", "f", "i">>,
         uFB04 |-> <<"f", "f", "l">>, uFB05 |-> <<"s", "t">>, uFB06 |-> <<"s", "t">>,
         uFB13 |-> <<"u0574", "u0576">>, uFB14 |-> <<"u0574", "u0565">>, uFB15 |-> <<"u0574", "u056B">>,
         uFB16 |-> <<"u057E", "u0576">>, uFB17 |-> <<"u0574", "u056D">>, uFB1D |-> <<"u05D9", "u05B4">>,
         uFB1F |-> <<"u05F2", "u05B7">>, uFB20 |-> <<"u05E2">>, uFB21 |-> <<"u05D0">>, uFB22 |-> <<"u05D3">>,
         uFB23 |-> <<"u05D4">>, uFB24 |-> <<"u05DB">>, uFB25 |-> <<"u05DC">>, uFB26 |-> <<"u05DD">>,
         uFB27 |-> <<"u05E8">>, uFB28 |-> <<"u05EA">>, uFB29 |-> <<"+">>, uFB2A |-> <<"u05E9", "u05C1">>,
         uFB2B |-> <<"u05E9", "u05C2">>, uFB2C |-> <<"u05E9", "u05BC", "u05C1">>,
         uFB2D |-> <<"u05E9", "u05BC", "u05C2">>, uFB2E |-> <<"u05D0", "u05B7">>,
         uFB2F |-> <<"u05D0", "u05B8">>, uFB30 |-> <<"u05D0", "u05BC">>, uFB31 |-> <<"u05D1", "u05BC">>,
         uFB32 |-> <<"u05D2", "u05BC">>, uFB33 |-> <<"u05D3", "u05BC">>, uFB34 |-> <<"u05D4", "u05BC">>,
         uFB35 |-> <<"u05D5", "u05BC">>, uFB36 |-> <<"u05D6", "u05BC">>, uFB38 |-> <<"u05D8", "u05BC">>,
         uFB39 |-> <<"u05D9", "u05BC">>, uFB3A |-> <<"u05DA", "u05BC">>, uFB3B |-> <<"u05DB", "u05BC">>,
         uFB3C |-> <<"u05DC", "u05BC">>, uFB3E |-> <<"u05DE", "u05BC">>, uFB40 |-> <<"u05E0", "u05BC">>,
         uFB41 |-> <<"u05E1", "u05BC">>, uFB43 |-> <<"u05E3", "u05BC">>, uFB44 |-> <<"u05E4", "u05BC">>,
         uFB46 |-> <<"u05E6", "u05BC">>, uFB47 |-> <<"u05E7", "u05BC">>, uFB48 |-> <<"u05E8", "u05BC">>,
         uFB49 |-> <<"u05E9", "u05BC">>, uFB4A |-> <<"u05EA", "u05BC">>, uFB4B |-> <<"u05D5", "u05B9">>,
         uFB4C |-> <<"u05D1", "u05BF">>, uFB4D |-> <<"u05DB", "u05BF">>, uFB4E |-> <<"u05E4", "u05BF">>,
         uFB4F |-> <<"u05D0", "u05DC">>, uFB50 |-> <<"u0671">>, uFB51 |-> <<"u0671">>, uFB52 |-> <<"u067B">>,
         uFB53 |-> <<"u067B">>, uFB54 |-> <<"u067B">>, uFB55 |-> <<"u067B">>, uFB56 |-> <<"u067E">>,
         uFB57 |-> <<"u067E">>, uFB58 |-> <<"u067E">>, uFB59 |-> <<"u067E">>, uFB5A |-> <<"u0680">>,
         uFB5B |-> <<"u0680">>, uFB5C |-> <<"u0680">>, uFB5D |-> <<"u0680">>, uFB5E |-> <<"u067A">>,
         uFB5F |-> <<"u067A">>, uFB60 |-> <<"u067A">>, uFB61 |-> <<"u067A">>, uFB62 |-> <<"u067F">>,
         uFB63 |-> <<"u067F">>, uFB64 |-> <<"u067F">>, uFB65 |-> <<"u067F">>, uFB66 |-> <<"u0679">>,
         uFB67 |-> <<"u0679">>, uFB68 |-> <<"u0679">>, uFB69 |-> <<"u0679">>, uFB6A |-> <<"u06A4">>,
         uFB6B |-> <<"u06A4">>, uFB6C |-> <<"u06A4">>, uFB6D |-> <<"u06A4">>, uFB6E |-> <<"u06A6">>,
         uFB6F |-> <<"u06A6">>, uFB70 |-> <<"u06A6">>, uFB71 |-> <<"u06A6">>, uFB72 |-> <<"u0684">>,
         uFB73 |-> <<"u0684">>, uFB74 |-> <<"u0684">>, uFB75 |-> <<"u0684">>, uFB76 |-> <<"u0683">>,
         uFB77 |-> <<"u0683">>, uFB78 |-> <<"u0683">>, uFB79 |-> <<"u0683">>, uFB7A |-> <<"u0686">>,
         uFB7B |-> <<"u0686">>, uFB7C |-> <<"u0686">>, uFB7D |-> <<"u0686">>, uFB7E |-> <<"u0687">>,
         uFB7F |-> <<"u0687">>, uFB80 |-> <<"u0687">>, uFB81 |-> <<"u0687">>, uFB82 |-> <<"u068D">>,
         uFB83 |-> <<"u068D">>, uFB84 |-> <<"u068C">>, uFB85 |-> <<"u068C">>, uFB86 |-> <<"u068E">>,
         uFB87 |-> <<"u068E">>, uFB88 |-> <<"u0688">>, uFB89 |-> <<"u0688">>, uFB8A |-> <<"u0698">>,
         uFB8B |-> <<"u0698">>, uFB8C |-> <<"u0691">>, uFB8D |-> <<"u0691">>, uFB8E |-> <<"u06A9">>,
         uFB8F |-> <<"u06A9">>, uFB90 |-> <<"u06A9">>, uFB91 |-> <<"u06A9">>, uFB92 |-> <<"u06AF">>,
         uFB93 |-> <<"u06AF">>, uFB94 |-> <<"u06AF">>, uFB95 |-> <<"u06AF">>, uFB96 |-> <<"u06B3">>,
         uFB97 |-> <<"u06B3">>, uFB98 |-> <<"u06B3">>, uFB99 |-> <<"u06B3">>, uFB9A |-> <<"u06B1">>,
         uFB9B |-> <<"u06B1">>, uFB9C |-> <<"u06B1">>, uFB9D |-> <<"u06B1">>, uFB9E |-> <<"u06BA">>,
         uFB9F |-> <<"u06BA">>, uFBA0 |-> <<"u06BB">>, uFBA1 |-> <<"u06BB">>, uFBA2 |-> <<"u06BB">>,
         uFBA3 |-> <<"u06BB">>, uFBA4 |-> <<"u06D5", "u0654">>, uFBA5 |-> <<"u06D5", "u0654">>,
         uFBA6 |-> <<"u06C1">>, uFBA7 |-> <<"u06C1">>, uFBA8 |-> <<"u06C1">>, uFBA9 |-> <<"u06C1">>,
         uFBAA |-> <<"u06BE">>, uFBAB |-> <<"u06BE">>, uFBAC |-> <<"u06BE">>, uFBAD |-> <<"u06BE">>,
         uFBAE |-> <<"u06D2">>, uFBAF |-> <<"u06D2">>, uFBB0 |-> <<"u06D2", "u0654">>,
         uFBB1 |-> <<"u06D2", "u0654">>, uFBD3 |-> <<"u06AD">>, uFBD4 |-> <<"u06AD">>, uFBD5 |-> <<"u06AD">>,
         uFBD6 |-> <<"u06AD">>, uFBD7 |-> <<"u06C7">>, uFBD8 |-> <<"u06C7">>, uFBD9 |-> <<"u06C6">>,
         uFBDA |-> <<"u06C6">>, uFBDB |-> <<"u06C8">>, uFBDC |-> <<"u06C8">>, uFBDD |-> <<"u06C7", "u0674">>,
         uFBDE |-> <<"u06CB">>, uFBDF |-> <<"u06CB">>, uFBE0 |-> <<"u06C5">>, uFBE1 |-> <<"u06C5">>,
         uFBE2 |-> <<"u06C9">>, uFBE3 |-> <<"u06C9">>, uFBE4 |-> <<"u06D0">>, uFBE5 |-> <<"u06D0">>,
         uFBE6 |-> <<"u06D0">>, uFBE7 |-> <<"u06D0">>, uFBE8 |-> <<"u0649">>, uFBE9 |-> <<"u0649">>,
         uFBEA |-> <<"u064A", "u0654", "u0627">>, uFBEB |-> <<"u064A", "u0654", "u0627">>,
         uFBEC |-> <<"u064A", "u0654", "u06D5">>, uFBED |-> <<"u064A", "u0654", "u06D5">>,
         uFBEE |-> <<"u064A", "u0654", "u0648">>, uFBEF |-> <<"u064A", "u0654", "u0648">>,
         uFBF0 |-> <<"u064A", "u0654", "u06C7">>, uFBF1 |-> <<"u064A", "u0654", "u06C7">>,
         uFBF2 |-> <<"u064A", "u0654", "u06C6">>, uFBF3 |-> <<"u064A", "u0654", "u06C6">>,
         uFBF4 |-> <<"u064A", "u0654", "u06C8">>, uFBF5 |-> <<"u064A", "u0654", "u06C8">>,
         uFBF6 |-> <<"u064A", "u0654", "u06D0">>, uFBF7 |-> <<"u064A", "u0654", "u06D0">>,
         uFBF8 |-> <<"u064A", "u0654", "u06D0">>, uFBF9 |-> <<"u064A", "u0654", "u0649">>,
         uFBFA |-> <<"u064A", "u0654", "u0649">>, uFBFB |-> <<"u064A", "u0654", "u0649">>,
         uFBFC |-> <<"u06CC">>, uFBFD |-> <<"u06CC">>, uFBFE |-> <<"u06CC">>, uFBFF |-> <<"u06CC">>,
         uFC00 |-> <<"u064A", "u0654", "u062C">>, uFC01 |-> <<"u064A", "u0654", "u062D">>,
         uFC02 |-> <<"u064A", "u0654", "u0645">>, uFC03 |-> <<"u064A", "u0654", "u0649">>,
         uFC04 |-> <<"u064A", "u0654", "u064A">>, uFC05 |-> <<"u0628", "u062C">>,
         uFC06 |-> <<"u0628", "u062D">>, uFC07 |-> <<"u0628", "u062E">>, uFC08 |-> <<"u0628", "u0645">>,
         uFC09 |-> <<"u0628", "u0649">>, uFC0A |-> <<"u0628", "u064A">>, uFC0B |-> <<"u062A", "u062C">>,
         uFC0C |-> <<"u062A", "u062D">>, uFC0D |-> <<"u062A", "u062E">>, uFC0E |-> <<"u062A", "u0645">>,
         uFC0F |-> <<"u062A", "u0649">>, uFC10 |-> <<"u062A", "u064A">>, uFC11 |-> <<"u062B", "u062C">>,
         uFC12 |-> <<"u062B", "u0645">>, uFC13 |-> <<"u062B", "u0649">>, uFC14 |-> <<"u062B", "u064A">>,
         uFC15 |-> <<"u062C", "u062D">>, uFC16 |-> <<"u062C", "u0645">>, uFC17 |-> <<"u062D", "u062C">>,
         uFC18 |-> <<"u062D", "u0645">>, uFC19 |-> <<"u062E", "u062C">>, uFC1A |-> <<"u062E", "u062D">>,
         uFC1B |-> <<"u062E", "u0645">>, uFC1C |-> <<"u0633", "u062C">>, uFC1D |-> <<"u0633", "u062D">>,
         uFC1E |-> <<"u0633", "u062E">>, uFC1F |-> <<"u0633", "u0645">>, uFC20 |-> <<"u0635", "u062D">>,
         uFC21 |-> <<"u0635", "u0645">>, uFC22 |-> <<"u0636", "u062C">>, uFC23 |-> <<"u0636", "u062D">>,
         uFC24 |-> <<"u0636", "u062E">>, uFC25 |-> <<"u0636", "u0645">>, uFC26 |-> <<"u0637", "u062D">>,
         uFC27 |-> <<"u0637", "u0645">>, uFC28 |-> <<"u0638", "u0645">>, uFC29 |-> <<"u0639", "u062C">>,
         uFC2A |-> <<"u0639", "u0645">>, uFC2B |-> <<"u063A", "u062C">>, uFC2C |-> <<"u063A", "u0645">>,
         uFC2D |-> <<"u0641", "u062C">>, uFC2E |-> <<"u0641", "u062D">>, uFC2F |-> <<"u0641", "u062E">>,
         uFC30 |-> <<"u0641", "u0645">>, uFC31 |-> <<"u0641", "u0649">>, uFC32 |-> <<"u0641", "u064A">>,
         uFC33 |-> <<"u0642", "u062D">>, uFC34 |-> <<"u0642", "u0645">>, uFC35 |-> <<"u0642", "u0649">>,
         uFC36 |-> <<"u0642", "u064A">>, uFC37 |-> <<"u0643", "u0627">>, uFC38 |-> <<"u0643", "u062C">>,
         uFC39 |-> <<"u0643", "u062D">>, uFC3A |-> <<"u0643", "u062E">>, uFC3B |-> <<"u0643", "u0644">>,
         uFC3C |-> <<"u0643", "u0645">>, uFC3D |-> <<"u0643", "u0649">>, uFC3E |-> <<"u0643", "u064A">>,
         uFC3F |-> <<"u0644", "u062C">>, uFC40 |-> <<"u0644", "u062D">>, uFC41 |-> <<"u0644", "u062E">>,
         uFC42 |-> <<"u0644", "u0645">>, uFC43 |-> <<"u0644", "u0649">>, uFC44 |-> <<"u0644", "u064A">>,
         uFC45 |-> <<"u0645", "u062C">>, uFC46 |-> <<"u0645", "u062D">>, uFC47 |-> <<"u0645", "u062E">>,
         uFC48 |-> <<"u0645", "u0645">>, uFC49 |-> <<"u0645", "u0649">>, uFC4A |-> <<"u0645", "u064A">>,
         uFC4B |-> <<"u0646", "u062C">>, uFC4C |-> <<"u0646", "u062D">>, uFC4D |-> <<"u0646", "u062E">>,
         uFC4E |-> <<"u0646", "u0645">>, uFC4F |-> <<"u0646", "u0649">>, uFC50 |-> <<"u0646", "u064A">>,
         uFC51 |-> <<"u0647", "u062C">>, uFC52 |-> <<"u0647", "u0645">>, uFC53 |-> <<"u0647", "u0649">>,
         uFC54 |-> <<"u0647", "u064A">>, uFC55 |-> <<"u064A", "u062C">>, uFC56 |-> <<"u064A", "u062D">>,
         uFC57 |-> <<"u064A", "u062E">>, uFC58 |-> <<"u064A", "u0645">>, uFC59 |-> <<"u064A", "u0649">>,
         uFC5A |-> <<"u064A", "u064A">>, uFC5B |-> <<"u0630", "u0670">>, uFC5C |-> <<"u0631", "u0670">>,
         uFC5D |-> <<"u0649", "u0670">>, uFC5E |-> <<" ", "u064C", "u0651">>,
         uFC5F |-> <<" ", "u064D", "u0651">>, uFC60 |-> <<" ", "u064E", "u0651">>,
         uFC61 |-> <<" ", "u064F", "u0651">>, uFC62 |-> <<" ", "u0650", "u0651">>,
         uFC63 |-> <<" ", "u0651", "u0670">>, uFC64 |-> <<"u064A", "u0654", "u0631">>,
         uFC65 |-> <<"u064A", "u0654", "u0632">>, uFC66 |-> <<"u064A", "u0654", "u0645">>,
         uFC67 |-> <<"u064A", "u0654", "u0646">>, uFC68 |-> <<"u064A", "u0654", "u0649">>,
         uFC69 |-> <<"u064A", "u0654", "u064A">>, uFC6A |-> <<"u0628", "u0631">>,
         uFC6B |-> <<"u0628", "u0632">>, uFC6C |-> <<"u0628", "u0645">>, uFC6D |-> <<"u0628", "u0646">>,
         uFC6E |-> <<"u0628", "u0649">>, uFC6F |-> <<"u0628", "u064A">>, uFC70 |-> <<"u062A", "u0631">>,
         uFC71 |-> <<"u062A", "u0632">>, uFC72 |-> <<"u062A", "u0645">>, uFC73 |-> <<"u062A", "u0646">>,
         uFC74 |-> <<"u062A", "u0649">>, uFC75 |-> <<"u062A", "u064A">>, uFC76 |-> <<"u062B", "u0631">>,
         uFC77 |-> <<"u062B", "u0632">>, uFC78 |-> <<"u062B", "u0645">>, uFC79 |-> <<"u062B", "u0646">>,
         uFC7A |-> <<"u062B", "u0649">>, uFC7B |-> <<"u062B", "u064A">>, uFC7C |-> <<"u0641", "u0649">>,
         uFC7D |-> <<"u0641", "u064A">>, uFC7E |-> <<"u0642", "u0649">>, uFC7F |-> <<"u0642", "u064A">>,
         uFC80 |-> <<"u0643", "u0627">>, uFC81 |-> <<"u0643", "u0644">>, uFC82 |-> <<"u0643", "u0645">>,
         uFC83 |-> <<"u0643", "u0649">>, uFC84 |-> <<"u0643", "u064A">>, uFC85 |-> <<"u0644", "u0645">>,
         uFC86 |-> <<"u0644", "u0649">>, uFC87 |-> <<"u0644", "u064A">>, uFC88 |-> <<"u0645", "u0627">>,
         uFC89 |-> <<"u0645", "u0645">>, uFC8A |-> <<"u0646", "u0631">>, uFC8B |-> <<"u0646", "u0632">>,
         uFC8C |-> <<"u0646", "u0645">>, uFC8D |-> <<"u0646", "u0646">>, uFC8E |-> <<"u0646", "u0649">>,
         uFC8F |-> <<"u0646", "u064A">>, uFC90 |-> <<"u0649", "u0670">>, uFC91 |-> <<"u064A", "u0631">>,
         uFC92 |-> <<"u064A", "u0632">>, uFC93 |-> <<"u064A", "u0645">>, uFC94 |-> <<"u064A", "u0646">>,
         uFC95 |-> <<"u064A", "u0649">>, uFC96 |-> <<"u064A", "u064A">>,
         uFC97 |-> <<"u064A", "u0654", "u062C">>, uFC98 |-> <<"u064A", "u0654", "u062D">>,
         uFC99 |-> <<"u064A", "u0654", "u062E">>, uFC9A |-> <<"u064A", "u0654", "u0645">>,
         uFC9B |-> <<"u064A", "u0654", "u0647">>, uFC9C |-> <<"u0628", "u062C">>,
         uFC9D |-> <<"u0628", "u062D">>, uFC9E |-> <<"u0628", "u062E">>, uFC9F |-> <<"u0628", "u0645">>,
         uFCA0 |-> <<"u0628", "u0647">>, uFCA1 |-> <<"u062A", "u062C">>, uFCA2 |-> <<"u062A", "u062D">>,
         uFCA3 |-> <<"u062A", "u062E">>, uFCA4 |-> <<"u062A", "u0645">>, uFCA5 |-> <<"u062A", "u0647">>,
         uFCA6 |-> <<"u062B", "u0645">>, uFCA7 |-> <<"u062C", "u062D">>, uFCA8 |-> <<"u062C", "u0645">>,
         uFCA9 |-> <<"u062D", "u062C">>, uFCAA |-> <<"u062D", "u0645">>, uFCAB |-> <<"u062E", "u062C">>,
         uFCAC |-> <<"u062E", "u0645">>, uFCAD |-> <<"u0633", "u062C">>, uFCAE |-> <<"u0633", "u062D">>,
         uFCAF |-> <<"u0633", "u062E">>, uFCB0 |-> <<"u0633", "u0645">>, uFCB1 |-> <<"u0635", "u062D">>,
         uFCB2 |-> <<"u0635", "u062E">>, uFCB3 |-> <<"u0635", "u0645">>, uFCB4 |-> <<"u0636", "u062C">>,
         uFCB5 |-> <<"u0636", "u062D">>, uFCB6 |-> <<"u0636", "u062E">>, uFCB7 |-> <<"u0636", "u0645">>,
         uFCB8 |-> <<"u0637", "u062D">>, uFCB9 |-> <<"u0638", "u0645">>, uFCBA |-> <<"u0639", "u062C">>,
         uFCBB |-> <<"u0639", "u0645">>, uFCBC |-> <<"u063A", "u062C">>, uFCBD |-> <<"u063A", "u0645">>,
         uFCBE |-> <<"u0641", "u062C">>, uFCBF |-> <<"u0641", "u062D">>, uFCC0 |-> <<"u0641", "u062E">>,
         uFCC1 |-> <<"u0641", "u0645">>, uFCC2 |-> <<"u0642", "u062D">>, uFCC3 |-> <<"u0642", "u0645">>,
         uFCC4 |-> <<"u0643", "u062C">>, uFCC5 |-> <<"u0643", "u062D">>, uFCC6 |-> <<"u0643", "u062E">>,
         uFCC7 |-> <<"u0643", "u0644">>, uFCC8 |-> <<"u0643", "u0645">>, uFCC9 |-> <<"u0644", "u062C">>,
         uFCCA |-> <<"u0644", "u062D">>, uFCCB |-> <<"u0644", "u062E">>, uFCCC |-> <<"u0644", "u0645">>,
         uFCCD |-> <<"u0644", "u0647">>, uFCCE |-> <<"u0645", "u062C">>, uFCCF |-> <<"u0645", "u062D">>,
         uFCD0 |-> <<"u0645", "u062E">>, uFCD1 |-> <<"u0645", "u0645">>, uFCD2 |-> <<"u0646", "u062C">>,
         uFCD3 |-> <<"u0646", "u062D">>, uFCD4 |-> <<"u0646", "u062E">>, uFCD5 |-> <<"u0646", "u0645">>,
         uFCD6 |-> <<"u0646", "u0647">>, uFCD7 |-> <<"u0647", "u062C">>, uFCD8 |-> <<"u0647", "u0645">>,
         uFCD9 |-> <<"u0647", "u0670">>, uFCDA |-> <<"u064A", "u062C">>, uFCDB |-> <<"u064A", "u062D">>,
         uFCDC |-> <<"u064A", "u062E">>, uFCDD |-> <<"u064A", "u0645">>, uFCDE |-> <<"u064A", "u0647">>,
         uFCDF |-> <<"u064A", "u0654", "u0645">>, uFCE0 |-> <<"u064A", "u0654", "u0647">>,
         uFCE1 |-> <<"u0628", "u0645">>, uFCE2 |-> <<"u0628", "u0647">>, uFCE3 |-> <<"u062A", "u0645">>,
         uFCE4 |-> <<"u062A", "u0647">>, uFCE5 |-> <<"u062B", "u0645">>, uFCE6 |-> <<"u062B", "u0647">>,
         uFCE7 |-> <<"u0633", "u0645">>, uFCE8 |-> <<"u0633", "u0647">>, uFCE9 |-> <<"u0634", "u0645">>,
         uFCEA |-> <<"u0634", "u0647">>, uFCEB |-> <<"u0643", "u0644">>, uFCEC |-> <<"u0643", "u0645">>,
         uFCED |-> <<"u0644", "u0645">>, uFCEE |-> <<"u0646", "u0645">>, uFCEF |-> <<"u0646", "u0647">>,
         uFCF0 |-> <<"u064A", "u0645">>, uFCF1 |-> <<"u064A", "u0647">>,
         uFCF2 |-> <<"u0640", "u064E", "u0651">>, uFCF3 |-> <<"u0640", "u064F", "u0651">>,
         uFCF4 |-> <<"u0640", "u0650", "u0651">>, uFCF5 |-> <<"u0637", "u0649">>,
         uFCF6 |-> <<"u0637", "u064A">>, uFCF7 |-> <<"u0639", "u0649">>, uFCF8 |-> <<"u0639", "u064A">>,
         uFCF9 |-> <<"u063A", "u0649">>, uFCFA |-> <<"u063A", "u064A">>, uFCFB |-> <<"u0633", "u0649">>,
         uFCFC |-> <<"u0633", "u064A">>, uFCFD |-> <<"u0634", "u0649">>, uFCFE |-> <<"u0634", "u064A">>,
         uFCFF |-> <<"u062D", "u0649">>, uFD00 |-> <<"u062D", "u064A">>, uFD01 |-> <<"u062C", "u0649">>,
         uFD02 |-> <<"u062C", "u064A">>, uFD03 |-> <<"u062E", "u0649">>, uFD04 |-> <<"u062E", "u064A">>,
         uFD05 |-> <<"u0635", "u0649">>, uFD06 |-> <<"u0635", "u064A">>, uFD07 |-> <<"u0636", "u0649">>,
         uFD08 |-> <<"u0636", "u064A">>, uFD09 |-> <<"u0634", "u062C">>, uFD0A |-> <<"u0634", "u062D">>,
         uFD0B |-> <<"u0634", "u062E">>, uFD0C |-> <<"u0634", "u0645">>, uFD0D |-> <<"u0634", "u0631">>,
         uFD0E |-> <<"u0633", "u0631">>, uFD0F |-> <<"u0635", "u0631">>, uFD10 |-> <<"u0636", "u0631">>,
         uFD11 |-> <<"u0637", "u0649">>, uFD12 |-> <<"u0637", "u064A">>, uFD13 |-> <<"u0639", "u0649">>,
         uFD14 |-> <<"u0639", "u064A">>, uFD15 |-> <<"u063A", "u0649">>, uFD16 |-> <<"u063A", "u064A">>,
         uFD17 |-> <<"u0633", "u0649">>, uFD18 |-> <<"u0633", "u064A">>, uFD19 |-> <<"u0634", "u0649">>,
         uFD1A |-> <<"u0634", "u064A">>, uFD1B |-> <<"u062D", "u0649">>, uFD1C |-> <<"u062D", "u064A">>,
         uFD1D |-> <<"u062C", "u0649">>, uFD1E |-> <<"u062C", "u064A">>, uFD1F |-> <<"u062E", "u0649">>,
         uFD20 |-> <<"u062E", "u064A">>, uFD21 |-> <<"u0635", "u0649">>, uFD22 |-> <<"u0635", "u064A">>,
         uFD23 |-> <<"u0636", "u0649">>, uFD24 |-> <<"u0636", "u064A">>, uFD25 |-> <<"u0634", "u062C">>,
         uFD26 |-> <<"u0634", "u062D">>, uFD27 |-> <<"u0634", "u062E">>, uFD28 |-> <<"u0634", "u0645">>,
         uFD29 |-> <<"u0634", "u0631">>, uFD2A |-> <<"u0633", "u0631">>, uFD2B |-> <<"u0635", "u0631">>,
         uFD2C |-> <<"u0636", "u0631">>, uFD2D |-> <<"u0634", "u062C">>, uFD2E |-> <<"u0634", "u062D">>,
         uFD2F |-> <<"u0634", "u062E">>, uFD30 |-> <<"u0634", "u0645">>, uFD31 |-> <<"u0633", "u0647">>,
         uFD32 |-> <<"u0634", "u0647">>, uFD33 |-> <<"u0637", "u0645">>, uFD34 |-> <<"u0633", "u062C">>,
         uFD35 |-> <<"u0633", "u062D">>, uFD36 |-> <<"u0633", "u062E">>, uFD37 |-> <<"u0634", "u062C">>,
         uFD38 |-> <<"u0634", "u062D">>, uFD39 |-> <<"u0634", "u062E">>, uFD3A |-> <<"u0637", "u0645">>,
         uFD3B |-> <<"u0638", "u0645">>, uFD3C |-> <<"u0627", "u064B">>, uFD3D |-> <<"u0627", "u064B">>,
         uFD50 |-> <<"u062A", "u062C", "u0645">>, uFD51 |-> <<"u062A", "u062D", "u062C">>,
         uFD52 |-> <<"u062A", "u062D", "u062C">>, uFD53 |-> <<"u062A", "u062D", "u0645">>,
         uFD54 |-> <<"u062A", "u062E", "u0645">>, uFD55 |-> <<"u062A", "u0645", "u062C">>,
         uFD56 |-> <<"u062A", "u0645", "u062D">>, uFD57 |-> <<"u062A", "u0645", "u062E">>,
         uFD58 |-> <<"u062C", "u0645", "u062D">>, uFD59 |-> <<"u062C", "u0645", "u062D">>,
         uFD5A |-> <<"u062D", "u0645", "u064A">>, uFD5B |-> <<"u062D", "u0645", "u0649">>,
         uFD5C |-> <<"u0633", "u062D", "u062C">>, uFD5D |-> <<"u0633", "u062C", "u062D">>,
         uFD5E |-> <<"u0633", "u062C", "u0649">>, uFD5F |-> <<"u0633", "u0645", "u062D">>,
         uFD60 |-> <<"u0633", "u0645", "u062D">>, uFD61 |-> <<"u0633", "u0645", "u062C">>,
         uFD62 |-> <<"u0633", "u0645", "u0645">>, uFD63 |-> <<"u0633", "u0645", "u0645">>,
         uFD64 |-> <<"u0635", "u062D", "u062D">>, uFD65 |-> <<"u0635", "u062D", "u062D">>,
         uFD66 |-> <<"u0635", "u0645", "u0645">>, uFD67 |-> <<"u0634", "u062D", "u0645">>,
         uFD68 |-> <<"u0634", "u062D", "u0645">>, uFD69 |-> <<"u0634", "u062C", "u064A">>,
         uFD6A |-> <<"u0634", "u0645", "u062E">>, uFD6B |-> <<"u0634", "u0645", "u062E">>,
         uFD6C |-> <<"u0634", "u0645", "u0645">>, uFD6D |-> <<"u0634", "u0645", "u0645">>,
         uFD6E |-> <<"u0636", "u062D", "u0649">>, uFD6F |-> <<"u0636", "u062E", "u0645">>,
         uFD70 |-> <<"u0636", "u062E", "u0645">>, uFD71 |-> <<"u0637", "u0645", "u062D">>,
         uFD72 |-> <<"u0637", "u0645", "u062D">>, uFD73 |-> <<"u0637", "u0645", "u0645">>,
         uFD74 |-> <<"u0637", "u0645", "u064A">>, uFD75 |-> <<"u0639", "u062C", "u0645">>,
         uFD76 |-> <<"u0639", "u0645", "u0645">>, uFD77 |-> <<"u0639", "u0645", "u0645">>,
         uFD78 |-> <<"u0639", "u0645", "u0649">>, uFD79 |-> <<"u063A", "u0645", "u0645">>,
         uFD7A |-> <<"u063A", "u0645", "u064A">>, uFD7B |-> <<"u063A", "u0645", "u0649">>,
         uFD7C |-> <<"u0641", "u062E", "u0645">>, uFD7D |-> <<"u0641", "u062E", "u0645">>,
         uFD7E |-> <<"u0642", "u0645", "u062D">>, uFD7F |-> <<"u0642", "u0645", "u0645">>,
         uFD80 |-> <<"u0644", "u062D", "u0645">>, uFD81 |-> <<"u0644", "u062D", "u064A">>,
         uFD82 |-> <<"u0644", "u062D", "u0649">>, uFD83 |-> <<"u0644", "u062C", "u062C">>,
         uFD84 |-> <<"u0644", "u062C", "u062C">>, uFD85 |-> <<"u0644", "u062E", "u0645">>,
         uFD86 |-> <<"u0644", "u062E", "u0645">>, uFD87 |-> <<"u0644", "u0645", "u062D">>,
         uFD88 |-> <<"u0644", "u0645", "u062D">>, uFD89 |-> <<"u0645", "u062D", "u062C">>,
         uFD8A |-> <<"u0645", "u062D", "u0645">>, uFD8B |-> <<"u0645", "u062D", "u064A">>,
         uFD8C |-> <<"u0645", "u062C", "u062D">>, uFD8D |-> <<"u0645", "u062C", "u0645">>,
         uFD8E |-> <<"u0645", "u062E", "u062C">>, uFD8F |-> <<"u0645", "u062E", "u0645">>,
         uFD92 |-> <<"u0645", "u062C", "u062E">>, uFD93 |-> <<"u0647", "u0645", "u062C">>,
         uFD94 |-> <<"u0647", "u0645", "u0645">>, uFD95 |-> <<"u0646", "u062D", "u0645">>,
         uFD96 |-> <<"u0646", "u062D", "u0649">>, uFD97 |-> <<"u0646", "u062C", "u0645">>,
         uFD98 |-> <<"u0646", "u062C", "u0645">>, uFD99 |-> <<"u0646", "u062C", "u0649">>,
         uFD9A |-> <<"u0646", "u0645", "u064A">>, uFD9B |-> <<"u0646", "u0645", "u0649">>,
         uFD9C |-> <<"u064A", "u0645", "u0645">>, uFD9D |-> <<"u064A", "u0645", "u0645">>,
         uFD9E |-> <<"u0628", "u062E", "u064A">>, uFD9F |-> <<"u062A", "u062C", "u064A">>,
         uFDA0 |-> <<"u062A", "u062C", "u0649">>, uFDA1 |-> <<"u062A", "u062E", "u064A">>,
         uFDA2 |-> <<"u062A", "u062E", "u0649">>, uFDA3 |-> <<"u062A", "u0645", "u064A">>,
         uFDA4 |-> <<"u062A", "u0645", "u0649">>, uFDA5 |-> <<"u062C", "u0645", "u064A">>,
         uFDA6 |-> <<"u062C", "u062D", "u0649">>, uFDA7 |-> <<"u062C", "u0645", "u0649">>,
         uFDA8 |-> <<"u0633", "u062E", "u0649">>, uFDA9 |-> <<"u0635", "u062D", "u064A">>,
         uFDAA |-> <<"u0634", "u062D", "u064A">>, uFDAB |-> <<"u0636", "u062D", "u064A">>,
         uFDAC |-> <<"u0644", "u062C", "u064A">>, uFDAD |-> <<"u0644", "u0645", "u064A">>,
         uFDAE |-> <<"u064A", "u062D", "u064A">>, uFDAF |-> <<"u064A", "u062C", "u064A">>,
         uFDB0 |-> <<"u064A", "u0645", "u064A">>, uFDB1 |-> <<"u0645", "u0645", "u064A">>,
         uFDB2 |-> <<"u0642", "u0645", "u064A">>, uFDB3 |-> <<"u0646", "u062D", "u064A">>,
         uFDB4 |-> <<"u0642", "u0645", "u062D">>, uFDB5 |-> <<"u0644", "u062D", "u0645">>,
         uFDB6 |-> <<"u0639", "u0645", "u064A">>, uFDB7 |-> <<"u0643", "u0645", "u064A">>,
         uFDB8 |-> <<"u0646", "u062C", "u062D">>, uFDB9 |-> <<"u0645", "u062E", "u064A">>,
         uFDBA |-> <<"u0644", "u062C", "u0645">>, uFDBB |-> <<"u0643", "u0645", "u0645">>,
         uFDBC |-> <<"u0644", "u062C", "u0645">>, uFDBD |-> <<"u0646", "u062C", "u062D">>,
         uFDBE |-> <<"u062C", "u062D", "u064A">>, uFDBF |-> <<"u062D", "u062C", "u064A">>,
         uFDC0 |-> <<"u0645", "u062C", "u064A">>, uFDC1 |-> <<"u0641", "u0645", "u064A">>,
         uFDC2 |-> <<"u0628", "u062D", "u064A">>, uFDC3 |-> <<"u0643", "u0645", "u0645">>,
         uFDC4 |-> <<"u0639", "u062C", "u0645">>, uFDC5 |-> <<"u0635", "u0645", "u0645">>,
         uFDC6 |-> <<"u0633", "u062E", "u064A">>, uFDC7 |-> <<"u0646", "u062C", "u064A">>,
         uFDF0 |-> <<"u0635", "u0644", "u06D2">>, uFDF1 |-> <<"u0642", "u0644", "u06D2">>,
         uFDF2 |-> <<"u0627", "u0644", "u0644", "u0647">>, uFDF3 |-> <<"u0627", "u0643", "u0628", "u0631">>,
         uFDF4 |-> <<"u0645", "u062D", "u0645", "u062F">>, uFDF5 |-> <<"u0635", "u0644", "u0639", "u0645">>,
         uFDF6 |-> <<"u0631", "u0633", "u0648", "u0644">>, uFDF7 |-> <<"u0639", "u0644", "u064A", "u0647">>,
         uFDF8 |-> <<"u0648", "u0633", "u0644", "u0645">>, uFDF9 |-> <<"u0635", "u0644", "u0649">>,
         uFDFA |-> <<"u0635", "u0644", "u0649", " ", "u0627", "u0644", "u0644", "u0647", " ", "u0639", "u0644", "u064A", "u0647", " ", "u0648", "u0633", "u0644", "u0645">>,
         uFDFB |-> <<"u062C", "u0644", " ", "u062C", "u0644", "u0627", "u0644", "u0647">>,
         uFDFC |-> <<"u0631", "u06CC", "u0627", "u0644">>, uFE10 |-> <<",">>, uFE11 |-> <<"u3001">>,
         uFE12 |-> <<"u3002">>, uFE13 |-> <<":">>, uFE14 |-> <<";">>, uFE15 |-> <<"!">>, uFE16 |-> <<"?">>,
         uFE17 |-> <<"u3016">>, uFE18 |-> <<"u3017">>, uFE19 |-> <<".", ".", ".">>, uFE30 |-> <<".", ".">>,
         uFE31 |-> <<"u2014">>, uFE32 |-> <<"u2013">>, uFE33 |-> <<"_">>, uFE34 |-> <<"_">>,
         uFE35 |-> <<"(">>, uFE36 |-> <<")">>, uFE37 |-> <<"{">>, uFE38 |-> <<"}">>, uFE39 |-> <<"u3014">>,
         uFE3A |-> <<"u3015">>, uFE3B |-> <<"u3010">>, uFE3C |-> <<"u3011">>, uFE3D |-> <<"u300A">>,
         uFE3E |-> <<"u300B">>, uFE3F |-> <<"u3008">>, uFE40 |-> <<"u3009">>, uFE41 |-> <<"u300C">>,
         uFE42 |-> <<"u300D">>, uFE43 |-> <<"u300E">>, uFE44 |-> <<"u300F">>, uFE47 |-> <<"[">>,
         uFE48 |-> <<"]">>, uFE49 |-> <<" ", "u0305">>, uFE4A |-> <<" ", "u0305">>,
         uFE4B |-> <<" ", "u0305">>, uFE4C |-> <<" ", "u0305">>, uFE4D |-> <<"_">>, uFE4E |-> <<"_">>,
         uFE4F |-> <<"_">>, uFE50 |-> <<",">>, uFE51 |-> <<"u3001">>, uFE52 |-> <<".">>, uFE54 |-> <<";">>,
         uFE55 |-> <<":">>, uFE56 |-> <<"?">>, uFE57 |-> <<"!">>, uFE58 |-> <<"u2014">>, uFE59 |-> <<"(">>,
         uFE5A |-> <<")">>, uFE5B |-> <<"{">>, uFE5C |-> <<"}">>, uFE5D |-> <<"u3014">>,
         uFE5E |-> <<"u3015">>, uFE5F |-> <<"#">>, uFE60 |-> <<"&">>, uFE61 |-> <<"*">>, uFE62 |-> <<"+">>,
         uFE63 |-> <<"-">>, uFE64 |-> <<"<">>, uFE65 |-> <<">">>, uFE66 |-> <<"=">>, uFE68 |-> <<"\\">>,
         uFE69 |-> <<"$">>, uFE6A |-> <<"%">>, uFE6B |-> <<"@">>, uFE70 |-> <<" ", "u064B">>,
         uFE71 |-> <<"u0640", "u064B">>, uFE72 |-> <<" ", "u064C">>, uFE74 |-> <<" ", "u064D">>,
         uFE76 |-> <<" ", "u064E">>, uFE77 |-> <<"u0640", "u064E">>, uFE78 |-> <<" ", "u064F">>,
         uFE79 |-> <<"u0640", "u064F">>, uFE7A |-> <<" ", "u0650">>, uFE7B |-> <<"u0640", "u0650">>,
         uFE7C |-> <<" ", "u0651">>, uFE7D |-> <<"u0640", "u0651">>, uFE7E |-> <<" ", "u0652">>,
         uFE7F |-> <<"u0640", "u0652">>, uFE80 |-> <<"u0621">>, uFE81 |-> <<"u0627", "u0653">>,
         uFE82 |-> <<"u0627", "u0653">>, uFE83 |-> <<"u0627", "u0654">>, uFE84 |-> <<"u0627", "u0654">>,
         uFE85 |-> <<"u0648", "u0654">>, uFE86 |-> <<"u0648", "u0654">>, uFE87 |-> <<"u0627", "u0655">>,
         uFE88 |-> <<"u0627", "u0655">>, uFE89 |-> <<"u064A", "u0654">>, uFE8A |-> <<"u064A", "u0654">>,
         uFE8B |-> <<"u064A", "u0654">>, uFE8C |-> <<"u064A", "u0654">>, uFE8D |-> <<"u0627">>,
         uFE8E |-> <<"u0627">>, uFE8F |-> <<"u0628">>, uFE90 |-> <<"u0628">>, uFE91 |-> <<"u0628">>,
         uFE92 |-> <<"u0628">>, uFE93 |-> <<"u0629">>, uFE94 |-> <<"u0629">>, uFE95 |-> <<"u062A">>,
         uFE96 |-> <<"u062A">>, uFE97 |-> <<"u062A">>, uFE98 |-> <<"u062A">>, uFE99 |-> <<"u062B">>,
         uFE9A |-> <<"u062B">>, uFE9B |-> <<"u062B">>, uFE9C |-> <<"u062B">>, uFE9D |-> <<"u062C">>,
         uFE9E |-> <<"u062C">>, uFE9F |-> <<"u062C">>, uFEA0 |-> <<"u062C">>, uFEA1 |-> <<"u062D">>,
         uFEA2 |-> <<"u062D">>, uFEA3 |-> <<"u062D">>, uFEA4 |-> <<"u062D">>, uFEA5 |-> <<"u062E">>,
         uFEA6 |-> <<"u062E">>, uFEA7 |-> <<"u062E">>, uFEA8 |-> <<"u062E">>, uFEA9 |-> <<"u062F">>,
         uFEAA |-> <<"u062F">>, uFEAB |-> <<"u0630">>, uFEAC |-> <<"u0630">>, uFEAD |-> <<"u0631">>,
         uFEAE |-> <<"u0631">>, uFEAF |-> <<"u0632">>, uFEB0 |-> <<"u0632">>, uFEB1 |-> <<"u0633">>,
         uFEB2 |-> <<"u0633">>, uFEB3 |-> <<"u0633">>, uFEB4 |-> <<"u0633">>, uFEB5 |-> <<"u0634">>,
         uFEB6 |-> <<"u0634">>, uFEB7 |-> <<"u0634">>, uFEB8 |-> <<"u0634">>, uFEB9 |-> <<"u0635">>,
         uFEBA |-> <<"u0635">>, uFEBB |-> <<"u0635">>, uFEBC |-> <<"u0635">>, uFEBD |-> <<"u0636">>,
         uFEBE |-> <<"u0636">>, uFEBF |-> <<"u0636">>, uFEC0 |-> <<"u0636">>, uFEC1 |-> <<"u0637">>,
         uFEC2 |-> <<"u0637">>, uFEC3 |-> <<"u0637">>, uFEC4 |-> <<"u0637">>, uFEC5 |-> <<"u0638">>,
         uFEC6 |-> <<"u0638">>, uFEC7 |-> <<"u0638">>, uFEC8 |-> <<"u0638">>, uFEC9 |-> <<"u0639">>,
         uFECA |-> <<"u0639">>, uFECB |-> <<"u0639">>, uFECC |-> <<"u0639">>, uFECD |-> <<"u063A">>,
         uFECE |-> <<"u063A">>, uFECF |-> <<"u063A">>, uFED0 |-> <<"u063A">>, uFED1 |-> <<"u0641">>,
         uFED2 |-> <<"u0641">>, uFED3 |-> <<"u0641">>, uFED4 |-> <<"u0641">>, uFED5 |-> <<"u0642">>,
         uFED6 |-> <<"u0642">>, uFED7 |-> <<"u0642">>, uFED8 |-> <<"u0642">>, uFED9 |-> <<"u0643">>,
         uFEDA |-> <<"u0643">>, uFEDB |-> <<"u0643">>, uFEDC |-> <<"u0643">>, uFEDD |-> <<"u0644">>,
         uFEDE |-> <<"u0644">>, uFEDF |-> <<"u0644">>, uFEE0 |-> <<"u0644">>, uFEE1 |-> <<"u0645">>,
         uFEE2 |-> <<"u0645">>, uFEE3 |-> <<"u0645">>, uFEE4 |-> <<"u0645">>, uFEE5 |-> <<"u0646">>,
         uFEE6 |-> <<"u0646">>, uFEE7 |-> <<"u0646">>, uFEE8 |-> <<"u0646">>, uFEE9 |-> <<"u0647">>,
         uFEEA |-> <<"u0647">>, uFEEB |-> <<"u0647">>, uFEEC |-> <<"u0647">>, uFEED |-> <<"u0648">>,
         uFEEE |-> <<"u0648">>, uFEEF |-> <<"u0649">>, uFEF0 |-> <<"u0649">>, uFEF1 |-> <<"u064A">>,
         uFEF2 |-> <<"u064A">>, uFEF3 |-> <<"u064A">>, uFEF4 |-> <<"u064A">>,
         uFEF5 |-> <<"u0644", "u0627", "u0653">>, uFEF6 |-> <<"u0644", "u0627", "u0653">>,
         uFEF7 |-> <<"u0644", "u0627", "u0654">>, uFEF8 |-> <<"u0644", "u0627", "u0654">>,
         uFEF9 |-> <<"u0644", "u0627", "u0655">>, uFEFA |-> <<"u0644", "u0627", "u0655">>,
         uFEFB |-> <<"u0644", "u0627">>, uFEFC |-> <<"u0644", "u0627">>, uFF01 |-> <<"!">>,
         uFF02 |-> <<"\"">>, uFF03 |-> <<"#">>, uFF04 |-> <<"$">>, uFF05 |-> <<"%">>, uFF06 |-> <<"&">>,
         uFF07 |-> <<"'">>, uFF08 |-> <<"(">>, uFF09 |-> <<")">>, uFF0A |-> <<"*">>, uFF0B |-> <<"+">>,
         uFF0C |-> <<",">>, uFF0D |-> <<"-">>, uFF0E |-> <<".">>, uFF0F |-> <<"/">>, uFF10 |-> <<"0">>,
         uFF11 |-> <<"1">>, uFF12 |-> <<"2">>, uFF13 |-> <<"3">>, uFF14 |-> <<"4">>, uFF15 |-> <<"5">>,
         uFF16 |-> <<"6">>, uFF17 |-> <<"7">>, uFF18 |-> <<"8">>, uFF19 |-> <<"9">>, uFF1A |-> <<":">>,
         uFF1B |-> <<";">>, uFF1C |-> <<"<">>, uFF1D |-> <<"=">>, uFF1E |-> <<">">>, uFF1F |-> <<"?">>,
         uFF20 |-> <<"@">>, uFF21 |-> <<"A">>, uFF22 |-> <<"B">>, uFF23 |-> <<"C">>, uFF24 |-> <<"D">>,
         uFF25 |-> <<"E">>, uFF26 |-> <<"F">>, uFF27 |-> <<"G">>, uFF28 |-> <<"H">>, uFF29 |-> <<"I">>,
         uFF2A |-> <<"J">>, uFF2B |-> <<"K">>, uFF2C |-> <<"L">>, uFF2D |-> <<"M">>, uFF2E |-> <<"N">>,
         uFF2F |-> <<"O">>, uFF30 |-> <<"P">>, uFF31 |-> <<"Q">>, uFF32 |-> <<"R">>, uFF33 |-> <<"S">>,
         uFF34 |-> <<"T">>, uFF35 |-> <<"U">>, uFF36 |-> <<"V">>, uFF37 |-> <<"W">>, uFF38 |-> <<"X">>,
         uFF39 |-> <<"Y">>, uFF3A |-> <<"Z">>, uFF3B |-> <<"[">>, uFF3C |-> <<"\\">>, uFF3D |-> <<"]">>,
         uFF3E |-> <<"^">>, uFF3F |-> <<"_">>, uFF40 |-> <<"u0060">>, uFF41 |-> <<"a">>, uFF42 |-> <<"b">>,
         uFF43 |-> <<"c">>, uFF44 |-> <<"d">>, uFF45 |-> <<"e">>, uFF46 |-> <<"f">>, uFF47 |-> <<"g">>,
         uFF48 |-> <<"h">>, uFF49 |-> <<"i">>, uFF4A |-> <<"j">>, uFF4B |-> <<"k">>, uFF4C |-> <<"l">>,
         uFF4D |-> <<"m">>, uFF4E |-> <<"n">>, uFF4F |-> <<"o">>, uFF50 |-> <<"p">>, uFF51 |-> <<"q">>,
         uFF52 |-> <<"r">>, uFF53 |-> <<"s">>, uFF54 |-> <<"t">>, uFF55 |-> <<"u">>, uFF56 |-> <<"v">>,
         uFF57 |-> <<"w">>, uFF58 |-> <<"x">>, uFF59 |-> <<"y">>, uFF5A |-> <<"z">>, uFF5B |-> <<"{">>,
         uFF5C |-> <<"|">>, uFF5D |-> <<"}">>, uFF5E |-> <<"~">>, uFF5F |-> <<"u2985">>,
         uFF60 |-> <<"u2986">>, uFF61 |-> <<"u3002">>, uFF62 |-> <<"u300C">>, uFF63 |-> <<"u300D">>,
         uFF64 |-> <<"u3001">>, uFF65 |-> <<"u30FB">>, uFF66 |-> <<"u30F2">>, uFF67 |-> <<"u30A1">>,
         uFF68 |-> <<"u30A3">>, uFF69 |-> <<"u30A5">>, uFF6A |-> <<"u30A7">>, uFF6B |-> <<"u30A9">>,
         uFF6C |-> <<"u30E3">>, uFF6D |-> <<"u30E5">>, uFF6E |-> <<"u30E7">>, uFF6F |-> <<"u30C3">>,
         uFF70 |-> <<"u30FC">>, uFF71 |-> <<"u30A2">>, uFF72 |-> <<"u30A4">>, uFF73 |-> <<"u30A6">>,
         uFF74 |-> <<"u30A8">>, uFF75 |-> <<"u30AA">>, uFF76 |-> <<"u30AB">>, uFF77 |-> <<"u30AD">>,
         uFF78 |-> <<"u30AF">>, uFF79 |-> <<"u30B1">>, uFF7A |-> <<"u30B3">>, uFF7B |-> <<"u30B5">>,
         uFF7C |-> <<"u30B7">>, uFF7D |-> <<"u30B9">>, uFF7E |-> <<"u30BB">>, uFF7F |-> <<"u30BD">>,
         uFF80 |-> <<"u30BF">>, uFF81 |-> <<"u30C1">>, uFF82 |-> <<"u30C4">>, uFF83 |-> <<"u30C6">>,
         uFF84 |-> <<"u30C8">>, uFF85 |-> <<"u30CA">>, uFF86 |-> <<"u30CB">>, uFF87 |-> <<"u30CC">>,
         uFF88 |-> <<"u30CD">>, uFF89 |-> <<"u30CE">>, uFF8A |-> <<"u30CF">>, uFF8B |-> <<"u30D2">>,
         uFF8C |-> <<"u30D5">>, uFF8D |-> <<"u30D8">>, uFF8E |-> <<"u30DB">>, uFF8F |-> <<"u30DE">>,
         uFF90 |-> <<"u30DF">>, uFF91 |-> <<"u30E0">>, uFF92 |-> <<"u30E1">>, uFF93 |-> <<"u30E2">>,
         uFF94 |-> <<"u30E4">>, uFF95 |-> <<"u30E6">>, uFF96 |-> <<"u30E8">>, uFF97 |-> <<"u30E9">>,
         uFF98 |-> <<"u30EA">>, uFF99 |-> <<"u30EB">>, uFF9A |-> <<"u30EC">>, uFF9B |-> <<"u30ED">>,
         uFF9C |-> <<"u30EF">>, uFF9D |-> <<"u30F3">>, uFF9E |-> <<"u3099">>, uFF9F |-> <<"u309A">>,
         uFFA0 |-> <<"u1160">>, uFFA1 |-> <<"u1100">>, uFFA2 |-> <<"u1101">>, uFFA3 |-> <<"u11AA">>,
         uFFA4 |-> <<"u1102">>, uFFA5 |-> <<"u11AC">>, uFFA6 |-> <<"u11AD">>, uFFA7 |-> <<"u1103">>,
         uFFA8 |-> <<"u1104">>, uFFA9 |-> <<"u1105">>, uFFAA |-> <<"u11B0">>, uFFAB |-> <<"u11B1">>,
         uFFAC |-> <<"u11B2">>, uFFAD |-> <<"u11B3">>, uFFAE |-> <<"u11B4">>, uFFAF |-> <<"u11B5">>,
         uFFB0 |-> <<"u111A">>, uFFB1 |-> <<"u1106">>, uFFB2 |-> <<"u1107">>, uFFB3 |-> <<"u1108">>,
         uFFB4 |-> <<"u1121">>, uFFB5 |-> <<"u1109">>, uFFB6 |-> <<"u110A">>, uFFB7 |-> <<"u110B">>,
         uFFB8 |-> <<"u110C">>, uFFB9 |-> <<"u110D">>, uFFBA |-> <<"u110E">>, uFFBB |-> <<"u110F">>,
         uFFBC |-> <<"u1110">>, uFFBD |-> <<"u1111">>, uFFBE |-> <<"u1112">>, uFFC2 |-> <<"u1161">>,
         uFFC3 |-> <<"u1162">>, uFFC4 |-> <<"u1163">>, uFFC5 |-> <<"u1164">>, uFFC6 |-> <<"u1165">>,
         uFFC7 |-> <<"u1166">>, uFFCA |-> <<"u1167">>, uFFCB |-> <<"u1168">>, uFFCC |-> <<"u1169">>,
         uFFCD |-> <<"u116A">>, uFFCE |-> <<"u116B">>, uFFCF |-> <<"u116C">>, uFFD2 |-> <<"u116D">>,
         uFFD3 |-> <<"u116E">>, uFFD4 |-> <<"u116F">>, uFFD5 |-> <<"u1170">>, uFFD6 |-> <<"u1171">>,
         uFFD7 |-> <<"u1172">>, uFFDA |-> <<"u1173">>, uFFDB |-> <<"u1174">>, uFFDC |-> <<"u1175">>,
         uFFE0 |-> <<"u00A2">>, uFFE1 |-> <<"u00A3">>, uFFE2 |-> <<"u00AC">>, uFFE3 |-> <<" ", "u0304">>,
         uFFE4 |-> <<"u00A6">>, uFFE5 |-> <<"u00A5">>, uFFE6 |-> <<"u20A9">>, uFFE8 |-> <<"u2502">>,
         uFFE9 |-> <<"u2190">>, uFFEA |-> <<"u2191">>, uFFEB |-> <<"u2192">>, uFFEC |-> <<"u2193">>,
         uFFED |-> <<"u25A0">>, uFFEE |-> <<"u25CB">>, u10781 |-> <<"u02D0">>, u10782 |-> <<"u02D1">>,
         u10783 |-> <<"u00E6">>, u10784 |-> <<"u0299">>, u10785 |-> <<"u0253">>, u10787 |-> <<"u02A3">>,
         u10788 |-> <<"uAB66">>, u10789 |-> <<"u02A5">>, u1078A |-> <<"u02A4">>, u1078B |-> <<"u0256">>,
         u1078C |-> <<"u0257">>, u1078D |-> <<"u1D91">>, u1078E |-> <<"u0258">>, u1078F |-> <<"u025E">>,
         u10790 |-> <<"u02A9">>, u10791 |-> <<"u0264">>, u10792 |-> <<"u0262">>, u10793 |-> <<"u0260">>,
         u10794 |-> <<"u029B">>, u10795 |-> <<"u0127">>, u10796 |-> <<"u029C">>, u10797 |-> <<"u0267">>,
         u10798 |-> <<"u0284">>, u10799 |-> <<"u02AA">>, u1079A |-> <<"u02AB">>, u1079B |-> <<"u026C">>,
         u1079C |-> <<"u1DF04">>, u1079D |-> <<"uA78E">>, u1079E |-> <<"u026E">>, u1079F |-> <<"u1DF05">>,
         u107A0 |-> <<"u028E">>, u107A1 |-> <<"u1DF06">>, u107A2 |-> <<"u00F8">>, u107A3 |-> <<"u0276">>,
         u107A4 |-> <<"u0277">>, u107A5 |-> <<"q">>, u107A6 |-> <<"u027A">>, u107A7 |-> <<"u1DF08">>,
         u107A8 |-> <<"u027D">>, u107A9 |-> <<"u027E">>, u107AA |-> <<"u0280">>, u107AB |-> <<"u02A8">>,
         u107AC |-> <<"u02A6">>, u107AD |-> <<"uAB67">>, u107AE |-> <<"u02A7">>, u107AF |-> <<"u0288">>,
         u107B0 |-> <<"u2C71">>, u107B2 |-> <<"u028F">>, u107B3 |-> <<"u02A1">>, u107B4 |-> <<"u02A2">>,
         u107B5 |-> <<"u0298">>, u107B6 |-> <<"u01C0">>, u107B7 |-> <<"u01C1">>, u107B8 |-> <<"u01C2">>,
         u107B9 |-> <<"u1DF0A">>, u107BA |-> <<"u1DF1E">>, u1109A |-> <<"u11099", "u110BA">>,
         u1109C |-> <<"u1109B", "u110BA">>, u110AB |-> <<"u110A5", "u110BA">>,
         u1112E |-> <<"u11131", "u11127">>, u1112F |-> <<"u11132", "u11127">>,
         u1134B |-> <<"u11347", "u1133E">>, u1134C |-> <<"u11347", "u11357">>,
         u114BB |-> <<"u114B9", "u114BA">>, u114BC |-> <<"u114B9", "u114B0">>,
         u114BE |-> <<"u114B9", "u114BD">>, u115BA |-> <<"u115B8", "u115AF">>,
         u115BB |-> <<"u115B9", "u115AF">>, u11938 |-> <<"u11935", "u11930">>,
         u1D15E |-> <<"u1D157", "u1D165">>, u1D15F |-> <<"u1D158", "u1D165">>,
         u1D160 |-> <<"u1D158", "u1D165", "u1D16E">>, u1D161 |-> <<"u1D158", "u1D165", "u1D16F">>,
         u1D162 |-> <<"u1D158", "u1D165", "u1D170">>, u1D163 |-> <<"u1D158", "u1D165", "u1D171">>,
         u1D164 |-> <<"u1D158", "u1D165", "u1D172">>, u1D1BB |-> <<"u1D1B9", "u1D165">>,
         u1D1BC |-> <<"u1D1BA", "u1D165">>, u1D1BD |-> <<"u1D1B9", "u1D165", "u1D16E">>,
         u1D1BE |-> <<"u1D1BA", "u1D165", "u1D16E">>, u1D1BF |-> <<"u1D1B9", "u1D165", "u1D16F">>,
         u1D1C0 |-> <<"u1D1BA", "u1D165", "u1D16F">>, u1D400 |-> <<"A">>, u1D401 |-> <<"B">>,
         u1D402 |-> <<"C">>, u1D403 |-> <<"D">>, u1D404 |-> <<"E">>, u1D405 |-> <<"F">>, u1D406 |-> <<"G">>,
         u1D407 |-> <<"H">>, u1D408 |-> <<"I">>, u1D409 |-> <<"J">>, u1D40A |-> <<"K">>, u1D40B |-> <<"L">>,
         u1D40C |-> <<"M">>, u1D40D |-> <<"N">>, u1D40E |-> <<"O">>, u1D40F |-> <<"P">>, u1D410 |-> <<"Q">>,
         u1D411 |-> <<"R">>, u1D412 |-> <<"S">>, u1D413 |-> <<"T">>, u1D414 |-> <<"U">>, u1D415 |-> <<"V">>,
         u1D416 |-> <<"W">>, u1D417 |-> <<"X">>, u1D418 |-> <<"Y">>, u1D419 |-> <<"Z">>, u1D41A |-> <<"a">>,
         u1D41B |-> <<"b">>, u1D41C |-> <<"c">>, u1D41D |-> <<"d">>, u1D41E |-> <<"e">>, u1D41F |-> <<"f">>,
         u1D420 |-> <<"g">>, u1D421 |-> <<"h">>, u1D422 |-> <<"i">>, u1D423 |-> <<"j">>, u1D424 |-> <<"k">>,
         u1D425 |-> <<"l">>, u1D426 |-> <<"m">>, u1D427 |-> <<"n">>, u1D428 |-> <<"o">>, u1D429 |-> <<"p">>,
         u1D42A |-> <<"q">>, u1D42B |-> <<"r">>, u1D42C |-> <<"s">>, u1D42D |-> <<"t">>, u1D42E |-> <<"u">>,
         u1D42F |-> <<"v">>, u1D430 |-> <<"w">>, u1D431 |-> <<"x">>, u1D432 |-> <<"y">>, u1D433 |-> <<"z">>,
         u1D434 |-> <<"A">>, u1D435 |-> <<"B">>, u1D436 |-> <<"C">>, u1D437 |-> <<"D">>, u1D438 |-> <<"E">>,
         u1D439 |-> <<"F">>, u1D43A |-> <<"G">>, u1D43B |-> <<"H">>, u1D43C |-> <<"I">>, u1D43D |-> <<"J">>,
         u1D43E |-> <<"K">>, u1D43F |-> <<"L">>, u1D440 |-> <<"M">>, u1D441 |-> <<"N">>, u1D442 |-> <<"O">>,
         u1D443 |-> <<"P">>, u1D444 |-> <<"Q">>, u1D445 |-> <<"R">>, u1D446 |-> <<"S">>, u1D447 |-> <<"T">>,
         u1D448 |-> <<"U">>, u1D449 |-> <<"V">>, u1D44A |-> <<"W">>, u1D44B |-> <<"X">>, u1D44C |-> <<"Y">>,
         u1D44D |-> <<"Z">>, u1D44E |-> <<"a">>, u1D44F |-> <<"b">>, u1D450 |-> <<"c">>, u1D451 |-> <<"d">>,
         u1D452 |-> <<"e">>, u1D453 |-> <<"f">>, u1D454 |-> <<"g">>, u1D456 |-> <<"i">>, u1D457 |-> <<"j">>,
         u1D458 |-> <<"k">>, u1D459 |-> <<"l">>, u1D45A |-> <<"m">>, u1D45B |-> <<"n">>, u1D45C |-> <<"o">>,
         u1D45D |-> <<"p">>, u1D45E |-> <<"q">>, u1D45F |-> <<"r">>, u1D460 |-> <<"s">>, u1D461 |-> <<"t">>,
         u1D462 |-> <<"u">>, u1D463 |-> <<"v">>, u1D464 |-> <<"w">>, u1D465 |-> <<"x">>, u1D466 |-> <<"y">>,
         u1D467 |-> <<"z">>, u1D468 |-> <<"A">>, u1D469 |-> <<"B">>, u1D46A |-> <<"C">>, u1D46B |-> <<"D">>,
         u1D46C |-> <<"E">>, u1D46D |-> <<"F">>, u1D46E |-> <<"G">>, u1D46F |-> <<"H">>, u1D470 |-> <<"I">>,
         u1D471 |-> <<"J">>, u1D472 |-> <<"K">>, u1D473 |-> <<"L">>, u1D474 |-> <<"M">>, u1D475 |-> <<"N">>,
         u1D476 |-> <<"O">>, u1D477 |-> <<"P">>, u1D478 |-> <<"Q">>, u1D479 |-> <<"R">>, u1D47A |-> <<"S">>,
         u1D47B |-> <<"T">>, u1D47C |-> <<"U">>, u1D47D |-> <<"V">>, u1D47E |-> <<"W">>, u1D47F |-> <<"X">>,
         u1D480 |-> <<"Y">>, u1D481 |-> <<"Z">>, u1D482 |-> <<"a">>, u1D483 |-> <<"b">>, u1D484 |-> <<"c">>,
         u1D485 |-> <<"d">>, u1D486 |-> <<"e">>, u1D487 |-> <<"f">>, u1D488 |-> <<"g">>, u1D489 |-> <<"h">>,
         u1D48A |-> <<"i">>, u1D48B |-> <<"j">>, u1D48C |-> <<"k">>, u1D48D |-> <<"l">>, u1D48E |-> <<"m">>,
         u1D48F |-> <<"n">>, u1D490 |-> <<"o">>, u1D491 |-> <<"p">>, u1D492 |-> <<"q">>, u1D493 |-> <<"r">>,
         u1D494 |-> <<"s">>, u1D495 |-> <<"t">>, u1D496 |-> <<"u">>, u1D497 |-> <<"v">>, u1D498 |-> <<"w">>,
         u1D499 |-> <<"x">>, u1D49A |-> <<"y">>, u1D49B |-> <<"z">>, u1D49C |-> <<"A">>, u1D49E |-> <<"C">>,
         u1D49F |-> <<"D">>, u1D4A2 |-> <<"G">>, u1D4A5 |-> <<"J">>, u1D4A6 |-> <<"K">>, u1D4A9 |-> <<"N">>,
         u1D4AA |-> <<"O">>, u1D4AB |-> <<"P">>, u1D4AC |-> <<"Q">>, u1D4AE |-> <<"S">>, u1D4AF |-> <<"T">>,
         u1D4B0 |-> <<"U">>, u1D4B1 |-> <<"V">>, u1D4B2 |-> <<"W">>, u1D4B3 |-> <<"X">>, u1D4B4 |-> <<"Y">>,
         u1D4B5 |-> <<"Z">>, u1D4B6 |-> <<"a">>, u1D4B7 |-> <<"b">>, u1D4B8 |-> <<"c">>, u1D4B9 |-> <<"d">>,
         u1D4BB |-> <<"f">>, u1D4BD |-> <<"h">>, u1D4BE |-> <<"i">>, u1D4BF |-> <<"j">>, u1D4C0 |-> <<"k">>,
         u1D4C1 |-> <<"l">>, u1D4C2 |-> <<"m">>, u1D4C3 |-> <<"n">>, u1D4C5 |-> <<"p">>, u1D4C6 |-> <<"q">>,
         u1D4C7 |-> <<"r">>, u1D4C8 |-> <<"s">>, u1D4C9 |-> <<"t">>, u1D4CA |-> <<"u">>, u1D4CB |-> <<"v">>,
         u1D4CC |-> <<"w">>, u1D4CD |-> <<"x">>, u1D4CE |-> <<"y">>, u1D4CF |-> <<"z">>, u1D4D0 |-> <<"A">>,
         u1D4D1 |-> <<"B">>, u1D4D2 |-> <<"C">>, u1D4D3 |-> <<"D">>, u1D4D4 |-> <<"E">>, u1D4D5 |-> <<"F">>,
         u1D4D6 |-> <<"G">>, u1D4D7 |-> <<"H">>, u1D4D8 |-> <<"I">>, u1D4D9 |-> <<"J">>, u1D4DA |-> <<"K">>,
         u1D4DB |-> <<"L">>, u1D4DC |-> <<"M">>, u1D4DD |-> <<"N">>, u1D4DE |-> <<"O">>, u1D4DF |-> <<"P">>,
         u1D4E0 |-> <<"Q">>, u1D4E1 |-> <<"R">>, u1D4E2 |-> <<"S">>, u1D4E3 |-> <<"T">>, u1D4E4 |-> <<"U">>,
         u1D4E5 |-> <<"V">>, u1D4E6 |-> <<"W">>, u1D4E7 |-> <<"X">>, u1D4E8 |-> <<"Y">>, u1D4E9 |-> <<"Z">>,
         u1D4EA |-> <<"a">>, u1D4EB |-> <<"b">>, u1D4EC |-> <<"c">>, u1D4ED |-> <<"d">>, u1D4EE |-> <<"e">>,
         u1D4EF |-> <<"f">>, u1D4F0 |-> <<"g">>, u1D4F1 |-> <<"h">>, u1D4F2 |-> <<"i">>, u1D4F3 |-> <<"j">>,
         u1D4F4 |-> <<"k">>, u1D4F5 |-> <<"l">>, u1D4F6 |-> <<"m">>, u1D4F7 |-> <<"n">>, u1D4F8 |-> <<"o">>,
         u1D4F9 |-> <<"p">>, u1D4FA |-> <<"q">>, u1D4FB |-> <<"r">>, u1D4FC |-> <<"s">>, u1D4FD |-> <<"t">>,
         u1D4FE |-> <<"u">>, u1D4FF |-> <<"v">>, u1D500 |-> <<"w">>, u1D501 |-> <<"x">>, u1D502 |-> <<"y">>,
         u1D503 |-> <<"z">>, u1D504 |-> <<"A">>, u1D505 |-> <<"B">>, u1D507 |-> <<"D">>, u1D508 |-> <<"E">>,
         u1D509 |-> <<"F">>, u1D50A |-> <<"G">>, u1D50D |-> <<"J">>, u1D50E |-> <<"K">>, u1D50F |-> <<"L">>,
         u1D510 |-> <<"M">>, u1D511 |-> <<"N">>, u1D512 |-> <<"O">>, u1D513 |-> <<"P">>, u1D514 |-> <<"Q">>,
         u1D516 |-> <<"S">>, u1D517 |-> <<"T">>, u1D518 |-> <<"U">>, u1D519 |-> <<"V">>, u1D51A |-> <<"W">>,
         u1D51B |-> <<"X">>, u1D51C |-> <<"Y">>, u1D51E |-> <<"a">>, u1D51F |-> <<"b">>, u1D520 |-> <<"c">>,
         u1D521 |-> <<"d">>, u1D522 |-> <<"e">>, u1D523 |-> <<"f">>, u1D524 |-> <<"g">>, u1D525 |-> <<"h">>,
         u1D526 |-> <<"i">>, u1D527 |-> <<"j">>, u1D528 |-> <<"k">>, u1D529 |-> <<"l">>, u1D52A |-> <<"m">>,
         u1D52B |-> <<"n">>, u1D52C |-> <<"o">>, u1D52D |-> <<"p">>, u1D52E |-> <<"q">>, u1D52F |-> <<"r">>,
         u1D530 |-> <<"s">>, u1D531 |-> <<"t">>, u1D532 |-> <<"u">>, u1D533 |-> <<"v">>, u1D534 |-> <<"w">>,
         u1D535 |-> <<"x">>, u1D536 |-> <<"y">>, u1D537 |-> <<"z">>, u1D538 |-> <<"A">>, u1D539 |-> <<"B">>,
         u1D53B |-> <<"D">>, u1D53C |-> <<"E">>, u1D53D |-> <<"F">>, u1D53E |-> <<"G">>, u1D540 |-> <<"I">>,
         u1D541 |-> <<"J">>, u1D542 |-> <<"K">>, u1D543 |-> <<"L">>, u1D544 |-> <<"M">>, u1D546 |-> <<"O">>,
         u1D54A |-> <<"S">>, u1D54B |-> <<"T">>, u1D54C |-> <<"U">>, u1D54D |-> <<"V">>, u1D54E |-> <<"W">>,
         u1D54F |-> <<"X">>, u1D550 |-> <<"Y">>, u1D552 |-> <<"a">>, u1D553 |-> <<"b">>, u1D554 |-> <<"c">>,
         u1D555 |-> <<"d">>, u1D556 |-> <<"e">>, u1D557 |-> <<"f">>, u1D558 |-> <<"g">>, u1D559 |-> <<"h">>,
         u1D55A |-> <<"i">>, u1D55B |-> <<"j">>, u1D55C |-> <<"k">>, u1D55D |-> <<"l">>, u1D55E |-> <<"m">>,
         u1D55F |-> <<"n">>, u1D560 |-> <<"o">>, u1D561 |-> <<"p">>, u1D562 |-> <<"q">>, u1D563 |-> <<"r">>,
         u1D564 |-> <<"s">>, u1D565 |-> <<"t">>, u1D566 |-> <<"u">>, u1D567 |-> <<"v">>, u1D568 |-> <<"w">>,
         u1D569 |-> <<"x">>, u1D56A |-> <<"y">>, u1D56B |-> <<"z">>, u1D56C |-> <<"A">>, u1D56D |-> <<"B">>,
         u1D56E |-> <<"C">>, u1D56F |-> <<"D">>, u1D570 |-> <<"E">>, u1D571 |-> <<"F">>, u1D572 |-> <<"G">>,
         u1D573 |-> <<"H">>, u1D574 |-> <<"I">>, u1D575 |-> <<"J">>, u1D576 |-> <<"K">>, u1D577 |-> <<"L">>,
         u1D578 |-> <<"M">>, u1D579 |-> <<"N">>, u1D57A |-> <<"O">>, u1D57B |-> <<"P">>, u1D57C |-> <<"Q">>,
         u1D57D |-> <<"R">>, u1D57E |-> <<"S">>, u1D57F |-> <<"T">>, u1D580 |-> <<"U">>, u1D581 |-> <<"V">>,
         u1D582 |-> <<"W">>, u1D583 |-> <<"X">>, u1D584 |-> <<"Y">>, u1D585 |-> <<"Z">>, u1D586 |-> <<"a">>,
         u1D587 |-> <<"b">>, u1D588 |-> <<"c">>, u1D589 |-> <<"d">>, u1D58A |-> <<"e">>, u1D58B |-> <<"f">>,
         u1D58C |-> <<"g">>, u1D58D |-> <<"h">>, u1D58E |-> <<"i">>, u1D58F |-> <<"j">>, u1D590 |-> <<"k">>,
         u1D591 |-> <<"l">>, u1D592 |-> <<"m">>, u1D593 |-> <<"n">>, u1D594 |-> <<"o">>, u1D595 |-> <<"p">>,
         u1D596 |-> <<"q">>, u1D597 |-> <<"r">>, u1D598 |-> <<"s">>, u1D599 |-> <<"t">>, u1D59A |-> <<"u">>,
         u1D59B |-> <<"v">>, u1D59C |-> <<"w">>, u1D59D |-> <<"x">>, u1D59E |-> <<"y">>, u1D59F |-> <<"z">>,
         u1D5A0 |-> <<"A">>, u1D5A1 |-> <<"B">>, u1D5A2 |-> <<"C">>, u1D5A3 |-> <<"D">>, u1D5A4 |-> <<"E">>,
         u1D5A5 |-> <<"F">>, u1D5A6 |-> <<"G">>, u1D5A7 |-> <<"H">>, u1D5A8 |-> <<"I">>, u1D5A9 |-> <<"J">>,
         u1D5AA |-> <<"K">>, u1D5AB |-> <<"L">>, u1D5AC |-> <<"M">>, u1D5AD |-> <<"N">>, u1D5AE |-> <<"O">>,
         u1D5AF |-> <<"P">>, u1D5B0 |-> <<"Q">>, u1D5B1 |-> <<"R">>, u1D5B2 |-> <<"S">>, u1D5B3 |-> <<"T">>,
         u1D5B4 |-> <<"U">>, u1D5B5 |-> <<"V">>, u1D5B6 |-> <<"W">>, u1D5B7 |-> <<"X">>, u1D5B8 |-> <<"Y">>,
         u1D5B9 |-> <<"Z">>, u1D5BA |-> <<"a">>, u1D5BB |-> <<"b">>, u1D5BC |-> <<"c">>, u1D5BD |-> <<"d">>,
         u1D5BE |-> <<"e">>, u1D5BF |-> <<"f">>, u1D5C0 |-> <<"g">>, u1D5C1 |-> <<"h">>, u1D5C2 |-> <<"i">>,
         u1D5C3 |-> <<"j">>, u1D5C4 |-> <<"k">>, u1D5C5 |-> <<"l">>, u1D5C6 |-> <<"m">>, u1D5C7 |-> <<"n">>,
         u1D5C8 |-> <<"o">>, u1D5C9 |-> <<"p">>, u1D5CA |-> <<"q">>, u1D5CB |-> <<"r">>, u1D5CC |-> <<"s">>,
         u1D5CD |-> <<"t">>, u1D5CE |-> <<"u">>, u1D5CF |-> <<"v">>, u1D5D0 |-> <<"w">>, u1D5D1 |-> <<"x">>,
         u1D5D2 |-> <<"y">>, u1D5D3 |-> <<"z">>, u1D5D4 |-> <<"A">>, u1D5D5 |-> <<"B">>, u1D5D6 |-> <<"C">>,
         u1D5D7 |-> <<"D">>, u1D5D8 |-> <<"E">>, u1D5D9 |-> <<"F">>, u1D5DA |-> <<"G">>, u1D5DB |-> <<"H">>,
         u1D5DC |-> <<"I">>, u1D5DD |-> <<"J">>, u1D5DE |-> <<"K">>, u1D5DF |-> <<"L">>, u1D5E0 |-> <<"M">>,
         u1D5E1 |-> <<"N">>, u1D5E2 |-> <<"O">>, u1D5E3 |-> <<"P">>, u1D5E4 |-> <<"Q">>, u1D5E5 |-> <<"R">>,
         u1D5E6 |-> <<"S">>, u1D5E7 |-> <<"T">>, u1D5E8 |-> <<"U">>, u1D5E9 |-> <<"V">>, u1D5EA |-> <<"W">>,
         u1D5EB |-> <<"X">>, u1D5EC |-> <<"Y">>, u1D5ED |-> <<"Z">>, u1D5EE |-> <<"a">>, u1D5EF |-> <<"b">>,
         u1D5F0 |-> <<"c">>, u1D5F1 |-> <<"d">>, u1D5F2 |-> <<"e">>, u1D5F3 |-> <<"f">>, u1D5F4 |-> <<"g">>,
         u1D5F5 |-> <<"h">>, u1D5F6 |-> <<"i">>, u1D5F7 |-> <<"j">>, u1D5F8 |-> <<"k">>, u1D5F9 |-> <<"l">>,
         u1D5FA |-> <<"m">>, u1D5FB |-> <<"n">>, u1D5FC |-> <<"o">>, u1D5FD |-> <<"p">>, u1D5FE |-> <<"q">>,
         u1D5FF |-> <<"r">>, u1D600 |-> <<"s">>, u1D601 |-> <<"t">>, u1D602 |-> <<"u">>, u1D603 |-> <<"v">>,
         u1D604 |-> <<"w">>, u1D605 |-> <<"x">>, u1D606 |-> <<"y">>, u1D607 |-> <<"z">>, u1D608 |-> <<"A">>,
         u1D609 |-> <<"B">>, u1D60A |-> <<"C">>, u1D60B |-> <<"D">>, u1D60C |-> <<"E">>, u1D60D |-> <<"F">>,
         u1D60E |-> <<"G">>, u1D60F |-> <<"H">>, u1D610 |-> <<"I">>, u1D611 |-> <<"J">>, u1D612 |-> <<"K">>,
         u1D613 |-> <<"L">>, u1D614 |-> <<"M">>, u1D615 |-> <<"N">>, u1D616 |-> <<"O">>, u1D617 |-> <<"P">>,
         u1D618 |-> <<"Q">>, u1D619 |-> <<"R">>, u1D61A |-> <<"S">>, u1D61B |-> <<"T">>, u1D61C |-> <<"U">>,
         u1D61D |-> <<"V">>, u1D61E |-> <<"W">>, u1D61F |-> <<"X">>, u1D620 |-> <<"Y">>, u1D621 |-> <<"Z">>,
         u1D622 |-> <<"a">>, u1D623 |-> <<"b">>, u1D624 |-> <<"c">>, u1D625 |-> <<"d">>, u1D626 |-> <<"e">>,
         u1D627 |-> <<"f">>, u1D628 |-> <<"g">>, u1D629 |-> <<"h">>, u1D62A |-> <<"i">>, u1D62B |-> <<"j">>,
         u1D62C |-> <<"k">>, u1D62D |-> <<"l">>, u1D62E |-> <<"m">>, u1D62F |-> <<"n">>, u1D630 |-> <<"o">>,
         u1D631 |-> <<"p">>, u1D632 |-> <<"q">>, u1D633 |-> <<"r">>, u1D634 |-> <<"s">>, u1D635 |-> <<"t">>,
         u1D636 |-> <<"u">>, u1D637 |-> <<"v">>, u1D638 |-> <<"w">>, u1D639 |-> <<"x">>, u1D63A |-> <<"y">>,
         u1D63B |-> <<"z">>, u1D63C |-> <<"A">>, u1D63D |-> <<"B">>, u1D63E |-> <<"C">>, u1D63F |-> <<"D">>,
         u1D640 |-> <<"E">>, u1D641 |-> <<"F">>, u1D642 |-> <<"G">>, u1D643 |-> <<"H">>, u1D644 |-> <<"I">>,
         u1D645 |-> <<"J">>, u1D646 |-> <<"K">>, u1D647 |-> <<"L">>, u1D648 |-> <<"M">>, u1D649 |-> <<"N">>,
         u1D64A |-> <<"O">>, u1D64B |-> <<"P">>, u1D64C |-> <<"Q">>, u1D64D |-> <<"R">>, u1D64E |-> <<"S">>,
         u1D64F |-> <<"T">>, u1D650 |-> <<"U">>, u1D651 |-> <<"V">>, u1D652 |-> <<"W">>, u1D653 |-> <<"X">>,
         u1D654 |-> <<"Y">>, u1D655 |-> <<"Z">>, u1D656 |-> <<"a">>, u1D657 |-> <<"b">>, u1D658 |-> <<"c">>,
         u1D659 |-> <<"d">>, u1D65A |-> <<"e">>, u1D65B |-> <<"f">>, u1D65C |-> <<"g">>, u1D65D |-> <<"h">>,
         u1D65E |-> <<"i">>, u1D65F |-> <<"j">>, u1D660 |-> <<"k">>, u1D661 |-> <<"l">>, u1D662 |-> <<"m">>,
         u1D663 |-> <<"n">>, u1D664 |-> <<"o">>, u1D665 |-> <<"p">>, u1D666 |-> <<"q">>, u1D667 |-> <<"r">>,
         u1D668 |-> <<"s">>, u1D669 |-> <<"t">>, u1D66A |-> <<"u">>, u1D66B |-> <<"v">>, u1D66C |-> <<"w">>,
         u1D66D |-> <<"x">>, u1D66E |-> <<"y">>, u1D66F |-> <<"z">>, u1D670 |-> <<"A">>, u1D671 |-> <<"B">>,
         u1D672 |-> <<"C">>, u1D673 |-> <<"D">>, u1D674 |-> <<"E">>, u1D675 |-> <<"F">>, u1D676 |-> <<"G">>,
         u1D677 |-> <<"H">>, u1D678 |-> <<"I">>, u1D679 |-> <<"J">>, u1D67A |-> <<"K">>, u1D67B |-> <<"L">>,
         u1D67C |-> <<"M">>, u1D67D |-> <<"N">>, u1D67E |-> <<"O">>, u1D67F |-> <<"P">>, u1D680 |-> <<"Q">>,
         u1D681 |-> <<"R">>, u1D682 |-> <<"S">>, u1D683 |-> <<"T">>, u1D684 |-> <<"U">>, u1D685 |-> <<"V">>,
         u1D686 |-> <<"W">>, u1D687 |-> <<"X">>, u1D688 |-> <<"Y">>, u1D689 |-> <<"Z">>, u1D68A |-> <<"a">>,
         u1D68B |-> <<"b">>, u1D68C |-> <<"c">>, u1D68D |-> <<"d">>, u1D68E |-> <<"e">>, u1D68F |-> <<"f">>,
         u1D690 |-> <<"g">>, u1D691 |-> <<"h">>, u1D692 |-> <<"i">>, u1D693 |-> <<"j">>, u1D694 |-> <<"k">>,
         u1D695 |-> <<"l">>, u1D696 |-> <<"m">>, u1D697 |-> <<"n">>, u1D698 |-> <<"o">>, u1D699 |-> <<"p">>,
         u1D69A |-> <<"q">>, u1D69B |-> <<"r">>, u1D69C |-> <<"s">>, u1D69D |-> <<"t">>, u1D69E |-> <<"u">>,
         u1D69F |-> <<"v">>, u1D6A0 |-> <<"w">>, u1D6A1 |-> <<"x">>, u1D6A2 |-> <<"y">>, u1D6A3 |-> <<"z">>,
         u1D6A4 |-> <<"u0131">>, u1D6A5 |-> <<"u0237">>, u1D6A8 |-> <<"u0391">>, u1D6A9 |-> <<"u0392">>,
         u1D6AA |-> <<"u0393">>, u1D6AB |-> <<"u0394">>, u1D6AC |-> <<"u0395">>, u1D6AD |-> <<"u0396">>,
         u1D6AE |-> <<"u0397">>, u1D6AF |-> <<"u0398">>, u1D6B0 |-> <<"u0399">>, u1D6B1 |-> <<"u039A">>,
         u1D6B2 |-> <<"u039B">>, u1D6B3 |-> <<"u039C">>, u1D6B4 |-> <<"u039D">>, u1D6B5 |-> <<"u039E">>,
         u1D6B6 |-> <<"u039F">>, u1D6B7 |-> <<"u03A0">>, u1D6B8 |-> <<"u03A1">>, u1D6B9 |-> <<"u0398">>,
         u1D6BA |-> <<"u03A3">>, u1D6BB |-> <<"u03A4">>, u1D6BC |-> <<"u03A5">>, u1D6BD |-> <<"u03A6">>,
         u1D6BE |-> <<"u03A7">>, u1D6BF |-> <<"u03A8">>, u1D6C0 |-> <<"u03A9">>, u1D6C1 |-> <<"u2207">>,
         u1D6C2 |-> <<"u03B1">>, u1D6C3 |-> <<"u03B2">>, u1D6C4 |-> <<"u03B3">>, u1D6C5 |-> <<"u03B4">>,
         u1D6C6 |-> <<"u03B5">>, u1D6C7 |-> <<"u03B6">>, u1D6C8 |-> <<"u03B7">>, u1D6C9 |-> <<"u03B8">>,
         u1D6CA |-> <<"u03B9">>, u1D6CB |-> <<"u03BA">>, u1D6CC |-> <<"u03BB">>, u1D6CD |-> <<"u03BC">>,
         u1D6CE |-> <<"u03BD">>, u1D6CF |-> <<"u03BE">>, u1D6D0 |-> <<"u03BF">>, u1D6D1 |-> <<"u03C0">>,
         u1D6D2 |-> <<"u03C1">>, u1D6D3 |-> <<"u03C2">>, u1D6D4 |-> <<"u03C3">>, u1D6D5 |-> <<"u03C4">>,
         u1D6D6 |-> <<"u03C5">>, u1D6D7 |-> <<"u03C6">>, u1D6D8 |-> <<"u03C7">>, u1D6D9 |-> <<"u03C8">>,
         u1D6DA |-> <<"u03C9">>, u1D6DB |-> <<"u2202">>, u1D6DC |-> <<"u03B5">>, u1D6DD |-> <<"u03B8">>,
         u1D6DE |-> <<"u03BA">>, u1D6DF |-> <<"u03C6">>, u1D6E0 |-> <<"u03C1">>, u1D6E1 |-> <<"u03C0">>,
         u1D6E2 |-> <<"u0391">>, u1D6E3 |-> <<"u0392">>, u1D6E4 |-> <<"u0393">>, u1D6E5 |-> <<"u0394">>,
         u1D6E6 |-> <<"u0395">>, u1D6E7 |-> <<"u0396">>, u1D6E8 |-> <<"u0397">>, u1D6E9 |-> <<"u0398">>,
         u1D6EA |-> <<"u0399">>, u1D6EB |-> <<"u039A">>, u1D6EC |-> <<"u039B">>, u1D6ED |-> <<"u039C">>,
         u1D6EE |-> <<"u039D">>, u1D6EF |-> <<"u039E">>, u1D6F0 |-> <<"u039F">>, u1D6F1 |-> <<"u03A0">>,
         u1D6F2 |-> <<"u03A1">>, u1D6F3 |-> <<"u0398">>, u1D6F4 |-> <<"u03A3">>, u1D6F5 |-> <<"u03A4">>,
         u1D6F6 |-> <<"u03A5">>, u1D6F7 |-> <<"u03A6">>, u1D6F8 |-> <<"u03A7">>, u1D6F9 |-> <<"u03A8">>,
         u1D6FA |-> <<"u03A9">>, u1D6FB |-> <<"u2207">>, u1D6FC |-> <<"u03B1">>, u1D6FD |-> <<"u03B2">>,
         u1D6FE |-> <<"u03B3">>, u1D6FF |-> <<"u03B4">>, u1D700 |-> <<"u03B5">>, u1D701 |-> <<"u03B6">>,
         u1D702 |-> <<"u03B7">>, u1D703 |-> <<"u03B8">>, u1D704 |-> <<"u03B9">>, u1D705 |-> <<"u03BA">>,
         u1D706 |-> <<"u03BB">>, u1D707 |-> <<"u03BC">>, u1D708 |-> <<"u03BD">>, u1D709 |-> <<"u03BE">>,
         u1D70A |-> <<"u03BF">>, u1D70B |-> <<"u03C0">>, u1D70C |-> <<"u03C1">>, u1D70D |-> <<"u03C2">>,
         u1D70E |-> <<"u03C3">>, u1D70F |-> <<"u03C4">>, u1D710 |-> <<"u03C5">>, u1D711 |-> <<"u03C6">>,
         u1D712 |-> <<"u03C7">>, u1D713 |-> <<"u03C8">>, u1D714 |-> <<"u03C9">>, u1D715 |-> <<"u2202">>,
         u1D716 |-> <<"u03B5">>, u1D717 |-> <<"u03B8">>, u1D718 |-> <<"u03BA">>, u1D719 |-> <<"u03C6">>,
         u1D71A |-> <<"u03C1">>, u1D71B |-> <<"u03C0">>, u1D71C |-> <<"u0391">>, u1D71D |-> <<"u0392">>,
         u1D71E |-> <<"u0393">>, u1D71F |-> <<"u0394">>, u1D720 |-> <<"u0395">>, u1D721 |-> <<"u0396">>,
         u1D722 |-> <<"u0397">>, u1D723 |-> <<"u0398">>, u1D724 |-> <<"u0399">>, u1D725 |-> <<"u039A">>,
         u1D726 |-> <<"u039B">>, u1D727 |-> <<"u039C">>, u1D728 |-> <<"u039D">>, u1D729 |-> <<"u039E">>,
         u1D72A |-> <<"u039F">>, u1D72B |-> <<"u03A0">>, u1D72C |-> <<"u03A1">>, u1D72D |-> <<"u0398">>,
         u1D72E |-> <<"u03A3">>, u1D72F |-> <<"u03A4">>, u1D730 |-> <<"u03A5">>, u1D731 |-> <<"u03A6">>,
         u1D732 |-> <<"u03A7">>, u1D733 |-> <<"u03A8">>, u1D734 |-> <<"u03A9">>, u1D735 |-> <<"u2207">>,
         u1D736 |-> <<"u03B1">>, u1D737 |-> <<"u03B2">>, u1D738 |-> <<"u03B3">>, u1D739 |-> <<"u03B4">>,
         u1D73A |-> <<"u03B5">>, u1D73B |-> <<"u03B6">>, u1D73C |-> <<"u03B7">>, u1D73D |-> <<"u03B8">>,
         u1D73E |-> <<"u03B9">>, u1D73F |-> <<"u03BA">>, u1D740 |-> <<"u03BB">>, u1D741 |-> <<"u03BC">>,
         u1D742 |-> <<"u03BD">>, u1D743 |-> <<"u03BE">>, u1D744 |-> <<"u03BF">>, u1D745 |-> <<"u03C0">>,
         u1D746 |-> <<"u03C1">>, u1D747 |-> <<"u03C2">>, u1D748 |-> <<"u03C3">>, u1D749 |-> <<"u03C4">>,
         u1D74A |-> <<"u03C5">>, u1D74B |-> <<"u03C6">>, u1D74C |-> <<"u03C7">>, u1D74D |-> <<"u03C8">>,
         u1D74E |-> <<"u03C9">>, u1D74F |-> <<"u2202">>, u1D750 |-> <<"u03B5">>, u1D751 |-> <<"u03B8">>,
         u1D752 |-> <<"u03BA">>, u1D753 |-> <<"u03C6">>, u1D754 |-> <<"u03C1">>, u1D755 |-> <<"u03C0">>,
         u1D756 |-> <<"u0391">>, u1D757 |-> <<"u0392">>, u1D758 |-> <<"u0393">>, u1D759 |-> <<"u0394">>,
         u1D75A |-> <<"u0395">>, u1D75B |-> <<"u0396">>, u1D75C |-> <<"u0397">>, u1D75D |-> <<"u0398">>,
         u1D75E |-> <<"u0399">>, u1D75F |-> <<"u039A">>, u1D760 |-> <<"u039B">>, u1D761 |-> <<"u039C">>,
         u1D762 |-> <<"u039D">>, u1D763 |-> <<"u039E">>, u1D764 |-> <<"u039F">>, u1D765 |-> <<"u03A0">>,
         u1D766 |-> <<"u03A1">>, u1D767 |-> <<"u0398">>, u1D768 |-> <<"u03A3">>, u1D769 |-> <<"u03A4">>,
         u1D76A |-> <<"u03A5">>, u1D76B |-> <<"u03A6">>, u1D76C |-> <<"u03A7">>, u1D76D |-> <<"u03A8">>,
         u1D76E |-> <<"u03A9">>, u1D76F |-> <<"u2207">>, u1D770 |-> <<"u03B1">>, u1D771 |-> <<"u03B2">>,
         u1D772 |-> <<"u03B3">>, u1D773 |-> <<"u03B4">>, u1D774 |-> <<"u03B5">>, u1D775 |-> <<"u03B6">>,
         u1D776 |-> <<"u03B7">>, u1D777 |-> <<"u03B8">>, u1D778 |-> <<"u03B9">>, u1D779 |-> <<"u03BA">>,
         u1D77A |-> <<"u03BB">>, u1D77B |-> <<"u03BC">>, u1D77C |-> <<"u03BD">>, u1D77D |-> <<"u03BE">>,
         u1D77E |-> <<"u03BF">>, u1D77F |-> <<"u03C0">>, u1D780 |-> <<"u03C1">>, u1D781 |-> <<"u03C2">>,
         u1D782 |-> <<"u03C3">>, u1D783 |-> <<"u03C4">>, u1D784 |-> <<"u03C5">>, u1D785 |-> <<"u03C6">>,
         u1D786 |-> <<"u03C7">>, u1D787 |-> <<"u03C8">>, u1D788 |-> <<"u03C9">>, u1D789 |-> <<"u2202">>,
         u1D78A |-> <<"u03B5">>, u1D78B |-> <<"u03B8">>, u1D78C |-> <<"u03BA">>, u1D78D |-> <<"u03C6">>,
         u1D78E |-> <<"u03C1">>, u1D78F |-> <<"u03C0">>, u1D790 |-> <<"u0391">>, u1D791 |-> <<"u0392">>,
         u1D792 |-> <<"u0393">>, u1D793 |-> <<"u0394">>, u1D794 |-> <<"u0395">>, u1D795 |-> <<"u0396">>,
         u1D796 |-> <<"u0397">>, u1D797 |-> <<"u0398">>, u1D798 |-> <<"u0399">>, u1D799 |-> <<"u039A">>,
         u1D79A |-> <<"u039B">>, u1D79B |-> <<"u039C">>, u1D79C |-> <<"u039D">>, u1D79D |-> <<"u039E">>,
         u1D79E |-> <<"u039F">>, u1D79F |-> <<"u03A0">>, u1D7A0 |-> <<"u03A1">>, u1D7A1 |-> <<"u0398">>,
         u1D7A2 |-> <<"u03A3">>, u1D7A3 |-> <<"u03A4">>, u1D7A4 |-> <<"u03A5">>, u1D7A5 |-> <<"u03A6">>,
         u1D7A6 |-> <<"u03A7">>, u1D7A7 |-> <<"u03A8">>, u1D7A8 |-> <<"u03A9">>, u1D7A9 |-> <<"u2207">>,
         u1D7AA |-> <<"u03B1">>, u1D7AB |-> <<"u03B2">>, u1D7AC |-> <<"u03B3">>, u1D7AD |-> <<"u03B4">>,
         u1D7AE |-> <<"u03B5">>, u1D7AF |-> <<"u03B6">>, u1D7B0 |-> <<"u03B7">>, u1D7B1 |-> <<"u03B8">>,
         u1D7B2 |-> <<"u03B9">>, u1D7B3 |-> <<"u03BA">>, u1D7B4 |-> <<"u03BB">>, u1D7B5 |-> <<"u03BC">>,
         u1D7B6 |-> <<"u03BD">>, u1D7B7 |-> <<"u03BE">>, u1D7B8 |-> <<"u03BF">>, u1D7B9 |-> <<"u03C0">>,
         u1D7BA |-> <<"u03C1">>, u1D7BB |-> <<"u03C2">>, u1D7BC |-> <<"u03C3">>, u1D7BD |-> <<"u03C4">>,
         u1D7BE |-> <<"u03C5">>, u1D7BF |-> <<"u03C6">>, u1D7C0 |-> <<"u03C7">>, u1D7C1 |-> <<"u03C8">>,
         u1D7C2 |-> <<"u03C9">>, u1D7C3 |-> <<"u2202">>, u1D7C4 |-> <<"u03B5">>, u1D7C5 |-> <<"u03B8">>,
         u1D7C6 |-> <<"u03BA">>, u1D7C7 |-> <<"u03C6">>, u1D7C8 |-> <<"u03C1">>, u1D7C9 |-> <<"u03C0">>,
         u1D7CA |-> <<"u03DC">>, u1D7CB |-> <<"u03DD">>, u1D7CE |-> <<"0">>, u1D7CF |-> <<"1">>,
         u1D7D0 |-> <<"2">>, u1D7D1 |-> <<"3">>, u1D7D2 |-> <<"4">>, u1D7D3 |-> <<"5">>, u1D7D4 |-> <<"6">>,
         u1D7D5 |-> <<"7">>, u1D7D6 |-> <<"8">>, u1D7D7 |-> <<"9">>, u1D7D8 |-> <<"0">>, u1D7D9 |-> <<"1">>,
         u1D7DA |-> <<"2">>, u1D7DB |-> <<"3">>, u1D7DC |-> <<"4">>, u1D7DD |-> <<"5">>, u1D7DE |-> <<"6">>,
         u1D7DF |-> <<"7">>, u1D7E0 |-> <<"8">>, u1D7E1 |-> <<"9">>, u1D7E2 |-> <<"0">>, u1D7E3 |-> <<"1">>,
         u1D7E4 |-> <<"2">>, u1D7E5 |-> <<"3">>, u1D7E6 |-> <<"4">>, u1D7E7 |-> <<"5">>, u1D7E8 |-> <<"6">>,
         u1D7E9 |-> <<"7">>, u1D7EA |-> <<"8">>, u1D7EB |-> <<"9">>, u1D7EC |-> <<"0">>, u1D7ED |-> <<"1">>,
         u1D7EE |-> <<"2">>, u1D7EF |-> <<"3">>, u1D7F0 |-> <<"4">>, u1D7F1 |-> <<"5">>, u1D7F2 |-> <<"6">>,
         u1D7F3 |-> <<"7">>, u1D7F4 |-> <<"8">>, u1D7F5 |-> <<"9">>, u1D7F6 |-> <<"0">>, u1D7F7 |-> <<"1">>,
         u1D7F8 |-> <<"2">>, u1D7F9 |-> <<"3">>, u1D7FA |-> <<"4">>, u1D7FB |-> <<"5">>, u1D7FC |-> <<"6">>,
         u1D7FD |-> <<"7">>, u1D7FE |-> <<"8">>, u1D7FF |-> <<"9">>, u1EE00 |-> <<"u0627">>,
         u1EE01 |-> <<"u0628">>, u1EE02 |-> <<"u062C">>, u1EE03 |-> <<"u062F">>, u1EE05 |-> <<"u0648">>,
         u1EE06 |-> <<"u0632">>, u1EE07 |-> <<"u062D">>, u1EE08 |-> <<"u0637">>, u1EE09 |-> <<"u064A">>,
         u1EE0A |-> <<"u0643">>, u1EE0B |-> <<"u0644">>, u1EE0C |-> <<"u0645">>, u1EE0D |-> <<"u0646">>,
         u1EE0E |-> <<"u0633">>, u1EE0F |-> <<"u0639">>, u1EE10 |-> <<"u0641">>, u1EE11 |-> <<"u0635">>,
         u1EE12 |-> <<"u0642">>, u1EE13 |-> <<"u0631">>, u1EE14 |-> <<"u0634">>, u1EE15 |-> <<"u062A">>,
         u1EE16 |-> <<"u062B">>, u1EE17 |-> <<"u062E">>, u1EE18 |-> <<"u0630">>, u1EE19 |-> <<"u0636">>,
         u1EE1A |-> <<"u0638">>, u1EE1B |-> <<"u063A">>, u1EE1C |-> <<"u066E">>, u1EE1D |-> <<"u06BA">>,
         u1EE1E |-> <<"u06A1">>, u1EE1F |-> <<"u066F">>, u1EE21 |-> <<"u0628">>, u1EE22 |-> <<"u062C">>,
         u1EE24 |-> <<"u0647">>, u1EE27 |-> <<"u062D">>, u1EE29 |-> <<"u064A">>, u1EE2A |-> <<"u0643">>,
         u1EE2B |-> <<"u0644">>, u1EE2C |-> <<"u0645">>, u1EE2D |-> <<"u0646">>, u1EE2E |-> <<"u0633">>,
         u1EE2F |-> <<"u0639">>, u1EE30 |-> <<"u0641">>, u1EE31 |-> <<"u0635">>, u1EE32 |-> <<"u0642">>,
         u1EE34 |-> <<"u0634">>, u1EE35 |-> <<"u062A">>, u1EE36 |-> <<"u062B">>, u1EE37 |-> <<"u062E">>,
         u1EE39 |-> <<"u0636">>, u1EE3B |-> <<"u063A">>, u1EE42 |-> <<"u062C">>, u1EE47 |-> <<"u062D">>,
         u1EE49 |-> <<"u064A">>, u1EE4B |-> <<"u0644">>, u1EE4D |-> <<"u0646">>, u1EE4E |-> <<"u0633">>,
         u1EE4F |-> <<"u0639">>, u1EE51 |-> <<"u0635">>, u1EE52 |-> <<"u0642">>, u1EE54 |-> <<"u0634">>,
         u1EE57 |-> <<"u062E">>, u1EE59 |-> <<"u0636">>, u1EE5B |-> <<"u063A">>, u1EE5D |-> <<"u06BA">>,
         u1EE5F |-> <<"u066F">>, u1EE61 |-> <<"u0628">>, u1EE62 |-> <<"u062C">>, u1EE64 |-> <<"u0647">>,
         u1EE67 |-> <<"u062D">>, u1EE68 |-> <<"u0637">>, u1EE69 |-> <<"u064A">>, u1EE6A |-> <<"u0643">>,
         u1EE6C |-> <<"u0645">>, u1EE6D |-> <<"u0646">>, u1EE6E |-> <<"u0633">>, u1EE6F |-> <<"u0639">>,
         u1EE70 |-> <<"u0641">>, u1EE71 |-> <<"u0635">>, u1EE72 |-> <<"u0642">>, u1EE74 |-> <<"u0634">>,
         u1EE75 |-> <<"u062A">>, u1EE76 |-> <<"u062B">>, u1EE77 |-> <<"u062E">>, u1EE79 |-> <<"u0636">>,
         u1EE7A |-> <<"u0638">>, u1EE7B |-> <<"u063A">>, u1EE7C |-> <<"u066E">>, u1EE7E |-> <<"u06A1">>,
         u1EE80 |-> <<"u0627">>, u1EE81 |-> <<"u0628">>, u1EE82 |-> <<"u062C">>, u1EE83 |-> <<"u062F">>,
         u1EE84 |-> <<"u0647">>, u1EE85 |-> <<"u0648">>, u1EE86 |-> <<"u0632">>, u1EE87 |-> <<"u062D">>,
         u1EE88 |-> <<"u0637">>, u1EE89 |-> <<"u064A">>, u1EE8B |-> <<"u0644">>, u1EE8C |-> <<"u0645">>,
         u1EE8D |-> <<"u0646">>, u1EE8E |-> <<"u0633">>, u1EE8F |-> <<"u0639">>, u1EE90 |-> <<"u0641">>,
         u1EE91 |-> <<"u0635">>, u1EE92 |-> <<"u0642">>, u1EE93 |-> <<"u0631">>, u1EE94 |-> <<"u0634">>,
         u1EE95 |-> <<"u062A">>, u1EE96 |-> <<"u062B">>, u1EE97 |-> <<"u062E">>, u1EE98 |-> <<"u0630">>,
         u1EE99 |-> <<"u0636">>, u1EE9A |-> <<"u0638">>, u1EE9B |-> <<"u063A">>, u1EEA1 |-> <<"u0628">>,
         u1EEA2 |-> <<"u062C">>, u1EEA3 |-> <<"u062F">>, u1EEA5 |-> <<"u0648">>, u1EEA6 |-> <<"u0632">>,
         u1EEA7 |-> <<"u062D">>, u1EEA8 |-> <<"u0637">>, u1EEA9 |-> <<"u064A">>, u1EEAB |-> <<"u0644">>,
         u1EEAC |-> <<"u0645">>, u1EEAD |-> <<"u0646">>, u1EEAE |-> <<"u0633">>, u1EEAF |-> <<"u0639">>,
         u1EEB0 |-> <<"u0641">>, u1EEB1 |-> <<"u0635">>, u1EEB2 |-> <<"u0642">>, u1EEB3 |-> <<"u0631">>,
         u1EEB4 |-> <<"u0634">>, u1EEB5 |-> <<"u062A">>, u1EEB6 |-> <<"u062B">>, u1EEB7 |-> <<"u062E">>,
         u1EEB8 |-> <<"u0630">>, u1EEB9 |-> <<"u0636">>, u1EEBA |-> <<"u0638">>, u1EEBB |-> <<"u063A">>,
         u1F100 |-> <<"0", ".">>, u1F101 |-> <<"0", ",">>, u1F102 |-> <<"1", ",">>, u1F103 |-> <<"2", ",">>,
         u1F104 |-> <<"3", ",">>, u1F105 |-> <<"4", ",">>, u1F106 |-> <<"5", ",">>, u1F107 |-> <<"6", ",">>,
         u1F108 |-> <<"7", ",">>, u1F109 |-> <<"8", ",">>, u1F10A |-> <<"9", ",">>,
         u1F110 |-> <<"(", "A", ")">>, u1F111 |-> <<"(", "B", ")">>, u1F112 |-> <<"(", "C", ")">>,
         u1F113 |-> <<"(", "D", ")">>, u1F114 |-> <<"(", "E", ")">>, u1F115 |-> <<"(", "F", ")">>,
         u1F116 |-> <<"(", "G", ")">>, u1F117 |-> <<"(", "H", ")">>, u1F118 |-> <<"(", "I", ")">>,
         u1F119 |-> <<"(", "J", ")">>, u1F11A |-> <<"(", "K", ")">>, u1F11B |-> <<"(", "L", ")">>,
         u1F11C |-> <<"(", "M", ")">>, u1F11D |-> <<"(", "N", ")">>, u1F11E |-> <<"(", "O", ")">>,
         u1F11F |-> <<"(", "P", ")">>, u1F120 |-> <<"(", "Q", ")">>, u1F121 |-> <<"(", "R", ")">>,
         u1F122 |-> <<"(", "S", ")">>, u1F123 |-> <<"(", "T", ")">>, u1F124 |-> <<"(", "U", ")">>,
         u1F125 |-> <<"(", "V", ")">>, u1F126 |-> <<"(", "W", ")">>, u1F127 |-> <<"(", "X", ")">>,
         u1F128 |-> <<"(", "Y", ")">>, u1F129 |-> <<"(", "Z", ")">>, u1F12A |-> <<"u3014", "S", "u3015">>,
         u1F12B |-> <<"C">>, u1F12C |-> <<"R">>, u1F12D |-> <<"C", "D">>, u1F12E |-> <<"W", "Z">>,
         u1F130 |-> <<"A">>, u1F131 |-> <<"B">>, u1F132 |-> <<"C">>, u1F133 |-> <<"D">>, u1F134 |-> <<"E">>,
         u1F135 |-> <<"F">>, u1F136 |-> <<"G">>, u1F137 |-> <<"H">>, u1F138 |-> <<"I">>, u1F139 |-> <<"J">>,
         u1F13A |-> <<"K">>, u1F13B |-> <<"L">>, u1F13C |-> <<"M">>, u1F13D |-> <<"N">>, u1F13E |-> <<"O">>,
         u1F13F |-> <<"P">>, u1F140 |-> <<"Q">>, u1F141 |-> <<"R">>, u1F142 |-> <<"S">>, u1F143 |-> <<"T">>,
         u1F144 |-> <<"U">>, u1F145 |-> <<"V">>, u1F146 |-> <<"W">>, u1F147 |-> <<"X">>, u1F148 |-> <<"Y">>,
         u1F149 |-> <<"Z">>, u1F14A |-> <<"H", "V">>, u1F14B |-> <<"M", "V">>, u1F14C |-> <<"S", "D">>,
         u1F14D |-> <<"S", "S">>, u1F14E |-> <<"P", "P", "V">>, u1F14F |-> <<"W", "C">>,
         u1F16A |-> <<"M", "C">>, u1F16B |-> <<"M", "D">>, u1F16C |-> <<"M", "R">>, u1F190 |-> <<"D", "J">>,
         u1F200 |-> <<"u307B", "u304B">>, u1F201 |-> <<"u30B3", "u30B3">>, u1F202 |-> <<"u30B5">>,
         u1F210 |-> <<"u624B">>, u1F211 |-> <<"u5B57">>, u1F212 |-> <<"u53CC">>,
         u1F213 |-> <<"u30C6", "u3099">>, u1F214 |-> <<"u4E8C">>, u1F215 |-> <<"u591A">>,
         u1F216 |-> <<"u89E3">>, u1F217 |-> <<"u5929">>, u1F218 |-> <<"u4EA4">>, u1F219 |-> <<"u6620">>,
         u1F21A |-> <<"u7121">>, u1F21B |-> <<"u6599">>, u1F21C |-> <<"u524D">>, u1F21D |-> <<"u5F8C">>,
         u1F21E |-> <<"u518D">>, u1F21F |-> <<"u65B0">>, u1F220 |-> <<"u521D">>, u1F221 |-> <<"u7D42">>,
         u1F222 |-> <<"u751F">>, u1F223 |-> <<"u8CA9">>, u1F224 |-> <<"u58F0">>, u1F225 |-> <<"u5439">>,
         u1F226 |-> <<"u6F14">>, u1F227 |-> <<"u6295">>, u1F228 |-> <<"u6355">>, u1F229 |-> <<"u4E00">>,
         u1F22A |-> <<"u4E09">>, u1F22B |-> <<"u904A">>, u1F22C |-> <<"u5DE6">>, u1F22D |-> <<"u4E2D">>,
         u1F22E |-> <<"u53F3">>, u1F22F |-> <<"u6307">>, u1F230 |-> <<"u8D70">>, u1F231 |-> <<"u6253">>,
         u1F232 |-> <<"u7981">>, u1F233 |-> <<"u7A7A">>, u1F234 |-> <<"u5408">>, u1F235 |-> <<"u6E80">>,
         u1F236 |-> <<"u6709">>, u1F237 |-> <<"u6708">>, u1F238 |-> <<"u7533">>, u1F239 |-> <<"u5272">>,
         u1F23A |-> <<"u55B6">>, u1F23B |-> <<"u914D">>, u1F240 |-> <<"u3014", "u672C", "u3015">>,
         u1F241 |-> <<"u3014", "u4E09", "u3015">>, u1F242 |-> <<"u3014", "u4E8C", "u3015">>,
         u1F243 |-> <<"u3014", "u5B89", "u3015">>, u1F244 |-> <<"u3014", "u70B9", "u3015">>,
         u1F245 |-> <<"u3014", "u6253", "u3015">>, u1F246 |-> <<"u3014", "u76D7", "u3015">>,
         u1F247 |-> <<"u3014", "u52DD", "u3015">>, u1F248 |-> <<"u3014", "u6557", "u3015">>,
         u1F250 |-> <<"u5F97">>, u1F251 |-> <<"u53EF">>, u1FBF0 |-> <<"0">>, u1FBF1 |-> <<"1">>,
         u1FBF2 |-> <<"2">>, u1FBF3 |-> <<"3">>, u1FBF4 |-> <<"4">>, u1FBF5 |-> <<"5">>, u1FBF6 |-> <<"6">>,
         u1FBF7 |-> <<"7">>, u1FBF8 |-> <<"8">>, u1FBF9 |-> <<"9">>, u2F800 |-> <<"u4E3D">>,
         u2F801 |-> <<"u4E38">>, u2F802 |-> <<"u4E41">>, u2F803 |-> <<"u20122">>, u2F804 |-> <<"u4F60">>,
         u2F805 |-> <<"u4FAE">>, u2F806 |-> <<"u4FBB">>, u2F807 |-> <<"u5002">>, u2F808 |-> <<"u507A">>,
         u2F809 |-> <<"u5099">>, u2F80A |-> <<"u50E7">>, u2F80B |-> <<"u50CF">>, u2F80C |-> <<"u349E">>,
         u2F80D |-> <<"u2063A">>, u2F80E |-> <<"u514D">>, u2F80F |-> <<"u5154">>, u2F810 |-> <<"u5164">>,
         u2F811 |-> <<"u5177">>, u2F812 |-> <<"u2051C">>, u2F813 |-> <<"u34B9">>, u2F814 |-> <<"u5167">>,
         u2F815 |-> <<"u518D">>, u2F816 |-> <<"u2054B">>, u2F817 |-> <<"u5197">>, u2F818 |-> <<"u51A4">>,
         u2F819 |-> <<"u4ECC">>, u2F81A |-> <<"u51AC">>, u2F81B |-> <<"u51B5">>, u2F81C |-> <<"u291DF">>,
         u2F81D |-> <<"u51F5">>, u2F81E |-> <<"u5203">>, u2F81F |-> <<"u34DF">>, u2F820 |-> <<"u523B">>,
         u2F821 |-> <<"u5246">>, u2F822 |-> <<"u5272">>, u2F823 |-> <<"u5277">>, u2F824 |-> <<"u3515">>,
         u2F825 |-> <<"u52C7">>, u2F826 |-> <<"u52C9">>, u2F827 |-> <<"u52E4">>, u2F828 |-> <<"u52FA">>,
         u2F829 |-> <<"u5305">>, u2F82A |-> <<"u5306">>, u2F82B |-> <<"u5317">>, u2F82C |-> <<"u5349">>,
         u2F82D |-> <<"u5351">>, u2F82E |-> <<"u535A">>, u2F82F |-> <<"u5373">>, u2F830 |-> <<"u537D">>,
         u2F831 |-> <<"u537F">>, u2F832 |-> <<"u537F">>, u2F833 |-> <<"u537F">>, u2F834 |-> <<"u20A2C">>,
         u2F835 |-> <<"u7070">>, u2F836 |-> <<"u53CA">>, u2F837 |-> <<"u53DF">>, u2F838 |-> <<"u20B63">>,
         u2F839 |-> <<"u53EB">>, u2F83A |-> <<"u53F1">>, u2F83B |-> <<"u5406">>, u2F83C |-> <<"u549E">>,
         u2F83D |-> <<"u5438">>, u2F83E |-> <<"u5448">>, u2F83F |-> <<"u5468">>, u2F840 |-> <<"u54A2">>,
         u2F841 |-> <<"u54F6">>, u2F842 |-> <<"u5510">>, u2F843 |-> <<"u5553">>, u2F844 |-> <<"u5563">>,
         u2F845 |-> <<"u5584">>, u2F846 |-> <<"u5584">>, u2F847 |-> <<"u5599">>, u2F848 |-> <<"u55AB">>,
         u2F849 |-> <<"u55B3">>, u2F84A |-> <<"u55C2">>, u2F84B |-> <<"u5716">>, u2F84C |-> <<"u5606">>,
         u2F84D |-> <<"u5717">>, u2F84E |-> <<"u5651">>, u2F84F |-> <<"u5674">>, u2F850 |-> <<"u5207">>,
         u2F851 |-> <<"u58EE">>, u2F852 |-> <<"u57CE">>, u2F853 |-> <<"u57F4">>, u2F854 |-> <<"u580D">>,
         u2F855 |-> <<"u578B">>, u2F856 |-> <<"u5832">>, u2F857 |-> <<"u5831">>, u2F858 |-> <<"u58AC">>,
         u2F859 |-> <<"u214E4">>, u2F85A |-> <<"u58F2">>, u2F85B |-> <<"u58F7">>, u2F85C |-> <<"u5906">>,
         u2F85D |-> <<"u591A">>, u2F85E |-> <<"u5922">>, u2F85F |-> <<"u5962">>, u2F860 |-> <<"u216A8">>,
         u2F861 |-> <<"u216EA">>, u2F862 |-> <<"u59EC">>, u2F863 |-> <<"u5A1B">>, u2F864 |-> <<"u5A27">>,
         u2F865 |-> <<"u59D8">>, u2F866 |-> <<"u5A66">>, u2F867 |-> <<"u36EE">>, u2F868 |-> <<"u36FC">>,
         u2F869 |-> <<"u5B08">>, u2F86A |-> <<"u5B3E">>, u2F86B |-> <<"u5B3E">>, u2F86C |-> <<"u219C8">>,
         u2F86D |-> <<"u5BC3">>, u2F86E |-> <<"u5BD8">>, u2F86F |-> <<"u5BE7">>, u2F870 |-> <<"u5BF3">>,
         u2F871 |-> <<"u21B18">>, u2F872 |-> <<"u5BFF">>, u2F873 |-> <<"u5C06">>, u2F874 |-> <<"u5F53">>,
         u2F875 |-> <<"u5C22">>, u2F876 |-> <<"u3781">>, u2F877 |-> <<"u5C60">>, u2F878 |-> <<"u5C6E">>,
         u2F879 |-> <<"u5CC0">>, u2F87A |-> <<"u5C8D">>, u2F87B |-> <<"u21DE4">>, u2F87C |-> <<"u5D43">>,
         u2F87D |-> <<"u21DE6">>, u2F87E |-> <<"u5D6E">>, u2F87F |-> <<"u5D6B">>, u2F880 |-> <<"u5D7C">>,
         u2F881 |-> <<"u5DE1">>, u2F882 |-> <<"u5DE2">>, u2F883 |-> <<"u382F">>, u2F884 |-> <<"u5DFD">>,
         u2F885 |-> <<"u5E28">>, u2F886 |-> <<"u5E3D">>, u2F887 |-> <<"u5E69">>, u2F888 |-> <<"u3862">>,
         u2F889 |-> <<"u22183">>, u2F88A |-> <<"u387C">>, u2F88B |-> <<"u5EB0">>, u2F88C |-> <<"u5EB3">>,
         u2F88D |-> <<"u5EB6">>, u2F88E |-> <<"u5ECA">>, u2F88F |-> <<"u2A392">>, u2F890 |-> <<"u5EFE">>,
         u2F891 |-> <<"u22331">>, u2F892 |-> <<"u22331">>, u2F893 |-> <<"u8201">>, u2F894 |-> <<"u5F22">>,
         u2F895 |-> <<"u5F22">>, u2F896 |-> <<"u38C7">>, u2F897 |-> <<"u232B8">>, u2F898 |-> <<"u261DA">>,
         u2F899 |-> <<"u5F62">>, u2F89A |-> <<"u5F6B">>, u2F89B |-> <<"u38E3">>, u2F89C |-> <<"u5F9A">>,
         u2F89D |-> <<"u5FCD">>, u2F89E |-> <<"u5FD7">>, u2F89F |-> <<"u5FF9">>, u2F8A0 |-> <<"u6081">>,
         u2F8A1 |-> <<"u393A">>, u2F8A2 |-> <<"u391C">>, u2F8A3 |-> <<"u6094">>, u2F8A4 |-> <<"u226D4">>,
         u2F8A5 |-> <<"u60C7">>, u2F8A6 |-> <<"u6148">>, u2F8A7 |-> <<"u614C">>, u2F8A8 |-> <<"u614E">>,
         u2F8A9 |-> <<"u614C">>, u2F8AA |-> <<"u617A">>, u2F8AB |-> <<"u618E">>, u2F8AC |-> <<"u61B2">>,
         u2F8AD |-> <<"u61A4">>, u2F8AE |-> <<"u61AF">>, u2F8AF |-> <<"u61DE">>, u2F8B0 |-> <<"u61F2">>,
         u2F8B1 |-> <<"u61F6">>, u2F8B2 |-> <<"u6210">>, u2F8B3 |-> <<"u621B">>, u2F8B4 |-> <<"u625D">>,
         u2F8B5 |-> <<"u62B1">>, u2F8B6 |-> <<"u62D4">>, u2F8B7 |-> <<"u6350">>, u2F8B8 |-> <<"u22B0C">>,
         u2F8B9 |-> <<"u633D">>, u2F8BA |-> <<"u62FC">>, u2F8BB |-> <<"u6368">>, u2F8BC |-> <<"u6383">>,
         u2F8BD |-> <<"u63E4">>, u2F8BE |-> <<"u22BF1">>, u2F8BF |-> <<"u6422">>, u2F8C0 |-> <<"u63C5">>,
         u2F8C1 |-> <<"u63A9">>, u2F8C2 |-> <<"u3A2E">>, u2F8C3 |-> <<"u6469">>, u2F8C4 |-> <<"u647E">>,
         u2F8C5 |-> <<"u649D">>, u2F8C6 |-> <<"u6477">>, u2F8C7 |-> <<"u3A6C">>, u2F8C8 |-> <<"u654F">>,
         u2F8C9 |-> <<"u656C">>, u2F8CA |-> <<"u2300A">>, u2F8CB |-> <<"u65E3">>, u2F8CC |-> <<"u66F8">>,
         u2F8CD |-> <<"u6649">>, u2F8CE |-> <<"u3B19">>, u2F8CF |-> <<"u6691">>, u2F8D0 |-> <<"u3B08">>,
         u2F8D1 |-> <<"u3AE4">>, u2F8D2 |-> <<"u5192">>, u2F8D3 |-> <<"u5195">>, u2F8D4 |-> <<"u6700">>,
         u2F8D5 |-> <<"u669C">>, u2F8D6 |-> <<"u80AD">>, u2F8D7 |-> <<"u43D9">>, u2F8D8 |-> <<"u6717">>,
         u2F8D9 |-> <<"u671B">>, u2F8DA |-> <<"u6721">>, u2F8DB |-> <<"u675E">>, u2F8DC |-> <<"u6753">>,
         u2F8DD |-> <<"u233C3">>, u2F8DE |-> <<"u3B49">>, u2F8DF |-> <<"u67FA">>, u2F8E0 |-> <<"u6785">>,
         u2F8E1 |-> <<"u6852">>, u2F8E2 |-> <<"u6885">>, u2F8E3 |-> <<"u2346D">>, u2F8E4 |-> <<"u688E">>,
         u2F8E5 |-> <<"u681F">>, u2F8E6 |-> <<"u6914">>, u2F8E7 |-> <<"u3B9D">>, u2F8E8 |-> <<"u6942">>,
         u2F8E9 |-> <<"u69A3">>, u2F8EA |-> <<"u69EA">>, u2F8EB |-> <<"u6AA8">>, u2F8EC |-> <<"u236A3">>,
         u2F8ED |-> <<"u6ADB">>, u2F8EE |-> <<"u3C18">>, u2F8EF |-> <<"u6B21">>, u2F8F0 |-> <<"u238A7">>,
         u2F8F1 |-> <<"u6B54">>, u2F8F2 |-> <<"u3C4E">>, u2F8F3 |-> <<"u6B72">>, u2F8F4 |-> <<"u6B9F">>,
         u2F8F5 |-> <<"u6BBA">>, u2F8F6 |-> <<"u6BBB">>, u2F8F7 |-> <<"u23A8D">>, u2F8F8 |-> <<"u21D0B">>,
         u2F8F9 |-> <<"u23AFA">>, u2F8FA |-> <<"u6C4E">>, u2F8FB |-> <<"u23CBC">>, u2F8FC |-> <<"u6CBF">>,
         u2F8FD |-> <<"u6CCD">>, u2F8FE |-> <<"u6C67">>, u2F8FF |-> <<"u6D16">>, u2F900 |-> <<"u6D3E">>,
         u2F901 |-> <<"u6D77">>, u2F902 |-> <<"u6D41">>, u2F903 |-> <<"u6D69">>, u2F904 |-> <<"u6D78">>,
         u2F905 |-> <<"u6D85">>, u2F906 |-> <<"u23D1E">>, u2F907 |-> <<"u6D34">>, u2F908 |-> <<"u6E2F">>,
         u2F909 |-> <<"u6E6E">>, u2F90A |-> <<"u3D33">>, u2F90B |-> <<"u6ECB">>, u2F90C |-> <<"u6EC7">>,
         u2F90D |-> <<"u23ED1">>, u2F90E |-> <<"u6DF9">>, u2F90F |-> <<"u6F6E">>, u2F910 |-> <<"u23F5E">>,
         u2F911 |-> <<"u23F8E">>, u2F912 |-> <<"u6FC6">>, u2F913 |-> <<"u7039">>, u2F914 |-> <<"u701E">>,
         u2F915 |-> <<"u701B">>, u2F916 |-> <<"u3D96">>, u2F917 |-> <<"u704A">>, u2F918 |-> <<"u707D">>,
         u2F919 |-> <<"u7077">>, u2F91A |-> <<"u70AD">>, u2F91B |-> <<"u20525">>, u2F91C |-> <<"u7145">>,
         u2F91D |-> <<"u24263">>, u2F91E |-> <<"u719C">>, u2F91F |-> <<"u243AB">>, u2F920 |-> <<"u7228">>,
         u2F921 |-> <<"u7235">>, u2F922 |-> <<"u7250">>, u2F923 |-> <<"u24608">>, u2F924 |-> <<"u7280">>,
         u2F925 |-> <<"u7295">>, u2F926 |-> <<"u24735">>, u2F927 |-> <<"u24814">>, u2F928 |-> <<"u737A">>,
         u2F929 |-> <<"u738B">>, u2F92A |-> <<"u3EAC">>, u2F92B |-> <<"u73A5">>, u2F92C |-> <<"u3EB8">>,
         u2F92D |-> <<"u3EB8">>, u2F92E |-> <<"u7447">>, u2F92F |-> <<"u745C">>, u2F930 |-> <<"u7471">>,
         u2F931 |-> <<"u7485">>, u2F932 |-> <<"u74CA">>, u2F933 |-> <<"u3F1B">>, u2F934 |-> <<"u7524">>,
         u2F935 |-> <<"u24C36">>, u2F936 |-> <<"u753E">>, u2F937 |-> <<"u24C92">>, u2F938 |-> <<"u7570">>,
         u2F939 |-> <<"u2219F">>, u2F93A |-> <<"u7610">>, u2F93B |-> <<"u24FA1">>, u2F93C |-> <<"u24FB8">>,
         u2F93D |-> <<"u25044">>, u2F93E |-> <<"u3FFC">>, u2F93F |-> <<"u4008">>, u2F940 |-> <<"u76F4">>,
         u2F941 |-> <<"u250F3">>, u2F942 |-> <<"u250F2">>, u2F943 |-> <<"u25119">>, u2F944 |-> <<"u25133">>,
         u2F945 |-> <<"u771E">>, u2F946 |-> <<"u771F">>, u2F947 |-> <<"u771F">>, u2F948 |-> <<"u774A">>,
         u2F949 |-> <<"u4039">>, u2F94A |-> <<"u778B">>, u2F94B |-> <<"u4046">>, u2F94C |-> <<"u4096">>,
         u2F94D |-> <<"u2541D">>, u2F94E |-> <<"u784E">>, u2F94F |-> <<"u788C">>, u2F950 |-> <<"u78CC">>,
         u2F951 |-> <<"u40E3">>, u2F952 |-> <<"u25626">>, u2F953 |-> <<"u7956">>, u2F954 |-> <<"u2569A">>,
         u2F955 |-> <<"u256C5">>, u2F956 |-> <<"u798F">>, u2F957 |-> <<"u79EB">>, u2F958 |-> <<"u412F">>,
         u2F959 |-> <<"u7A40">>, u2F95A |-> <<"u7A4A">>, u2F95B |-> <<"u7A4F">>, u2F95C |-> <<"u2597C">>,
         u2F95D |-> <<"u25AA7">>, u2F95E |-> <<"u25AA7">>, u2F95F |-> <<"u7AEE">>, u2F960 |-> <<"u4202">>,
         u2F961 |-> <<"u25BAB">>, u2F962 |-> <<"u7BC6">>, u2F963 |-> <<"u7BC9">>, u2F964 |-> <<"u4227">>,
         u2F965 |-> <<"u25C80">>, u2F966 |-> <<"u7CD2">>, u2F967 |-> <<"u42A0">>, u2F968 |-> <<"u7CE8">>,
         u2F969 |-> <<"u7CE3">>, u2F96A |-> <<"u7D00">>, u2F96B |-> <<"u25F86">>, u2F96C |-> <<"u7D63">>,
         u2F96D |-> <<"u4301">>, u2F96E |-> <<"u7DC7">>, u2F96F |-> <<"u7E02">>, u2F970 |-> <<"u7E45">>,
         u2F971 |-> <<"u4334">>, u2F972 |-> <<"u26228">>, u2F973 |-> <<"u26247">>, u2F974 |-> <<"u4359">>,
         u2F975 |-> <<"u262D9">>, u2F976 |-> <<"u7F7A">>, u2F977 |-> <<"u2633E">>, u2F978 |-> <<"u7F95">>,
         u2F979 |-> <<"u7FFA">>, u2F97A |-> <<"u8005">>, u2F97B |-> <<"u264DA">>, u2F97C |-> <<"u26523">>,
         u2F97D |-> <<"u8060">>, u2F97E |-> <<"u265A8">>, u2F97F |-> <<"u8070">>, u2F980 |-> <<"u2335F">>,
         u2F981 |-> <<"u43D5">>, u2F982 |-> <<"u80B2">>, u2F983 |-> <<"u8103">>, u2F984 |-> <<"u440B">>,
         u2F985 |-> <<"u813E">>, u2F986 |-> <<"u5AB5">>, u2F987 |-> <<"u267A7">>, u2F988 |-> <<"u267B5">>,
         u2F989 |-> <<"u23393">>, u2F98A |-> <<"u2339C">>, u2F98B |-> <<"u8201">>, u2F98C |-> <<"u8204">>,
         u2F98D |-> <<"u8F9E">>, u2F98E |-> <<"u446B">>, u2F98F |-> <<"u8291">>, u2F990 |-> <<"u828B">>,
         u2F991 |-> <<"u829D">>, u2F992 |-> <<"u52B3">>, u2F993 |-> <<"u82B1">>, u2F994 |-> <<"u82B3">>,
         u2F995 |-> <<"u82BD">>, u2F996 |-> <<"u82E6">>, u2F997 |-> <<"u26B3C">>, u2F998 |-> <<"u82E5">>,
         u2F999 |-> <<"u831D">>, u2F99A |-> <<"u8363">>, u2F99B |-> <<"u83AD">>, u2F99C |-> <<"u8323">>,
         u2F99D |-> <<"u83BD">>, u2F99E |-> <<"u83E7">>, u2F99F |-> <<"u8457">>, u2F9A0 |-> <<"u8353">>,
         u2F9A1 |-> <<"u83CA">>, u2F9A2 |-> <<"u83CC">>, u2F9A3 |-> <<"u83DC">>, u2F9A4 |-> <<"u26C36">>,
         u2F9A5 |-> <<"u26D6B">>, u2F9A6 |-> <<"u26CD5">>, u2F9A7 |-> <<"u452B">>, u2F9A8 |-> <<"u84F1">>,
         u2F9A9 |-> <<"u84F3">>, u2F9AA |-> <<"u8516">>, u2F9AB |-> <<"u273CA">>, u2F9AC |-> <<"u8564">>,
         u2F9AD |-> <<"u26F2C">>, u2F9AE |-> <<"u455D">>, u2F9AF |-> <<"u4561">>, u2F9B0 |-> <<"u26FB1">>,
         u2F9B1 |-> <<"u270D2">>, u2F9B2 |-> <<"u456B">>, u2F9B3 |-> <<"u8650">>, u2F9B4 |-> <<"u865C">>,
         u2F9B5 |-> <<"u8667">>, u2F9B6 |-> <<"u8669">>, u2F9B7 |-> <<"u86A9">>, u2F9B8 |-> <<"u8688">>,
         u2F9B9 |-> <<"u870E">>, u2F9BA |-> <<"u86E2">>, u2F9BB |-> <<"u8779">>, u2F9BC |-> <<"u8728">>,
         u2F9BD |-> <<"u876B">>, u2F9BE |-> <<"u8786">>, u2F9BF |-> <<"u45D7">>, u2F9C0 |-> <<"u87E1">>,
         u2F9C1 |-> <<"u8801">>, u2F9C2 |-> <<"u45F9">>, u2F9C3 |-> <<"u8860">>, u2F9C4 |-> <<"u8863">>,
         u2F9C5 |-> <<"u27667">>, u2F9C6 |-> <<"u88D7">>, u2F9C7 |-> <<"u88DE">>, u2F9C8 |-> <<"u4635">>,
         u2F9C9 |-> <<"u88FA">>, u2F9CA |-> <<"u34BB">>, u2F9CB |-> <<"u278AE">>, u2F9CC |-> <<"u27966">>,
         u2F9CD |-> <<"u46BE">>, u2F9CE |-> <<"u46C7">>, u2F9CF |-> <<"u8AA0">>, u2F9D0 |-> <<"u8AED">>,
         u2F9D1 |-> <<"u8B8A">>, u2F9D2 |-> <<"u8C55">>, u2F9D3 |-> <<"u27CA8">>, u2F9D4 |-> <<"u8CAB">>,
         u2F9D5 |-> <<"u8CC1">>, u2F9D6 |-> <<"u8D1B">>, u2F9D7 |-> <<"u8D77">>, u2F9D8 |-> <<"u27F2F">>,
         u2F9D9 |-> <<"u20804">>, u2F9DA |-> <<"u8DCB">>, u2F9DB |-> <<"u8DBC">>, u2F9DC |-> <<"u8DF0">>,
         u2F9DD |-> <<"u208DE">>, u2F9DE |-> <<"u8ED4">>, u2F9DF |-> <<"u8F38">>, u2F9E0 |-> <<"u285D2">>,
         u2F9E1 |-> <<"u285ED">>, u2F9E2 |-> <<"u9094">>, u2F9E3 |-> <<"u90F1">>, u2F9E4 |-> <<"u9111">>,
         u2F9E5 |-> <<"u2872E">>, u2F9E6 |-> <<"u911B">>, u2F9E7 |-> <<"u9238">>, u2F9E8 |-> <<"u92D7">>,
         u2F9E9 |-> <<"u92D8">>, u2F9EA |-> <<"u927C">>, u2F9EB |-> <<"u93F9">>, u2F9EC |-> <<"u9415">>,
         u2F9ED |-> <<"u28BFA">>, u2F9EE |-> <<"u958B">>, u2F9EF |-> <<"u4995">>, u2F9F0 |-> <<"u95B7">>,
         u2F9F1 |-> <<"u28D77">>, u2F9F2 |-> <<"u49E6">>, u2F9F3 |-> <<"u96C3">>, u2F9F4 |-> <<"u5DB2">>,
         u2F9F5 |-> <<"u9723">>, u2F9F6 |-> <<"u29145">>, u2F9F7 |-> <<"u2921A">>, u2F9F8 |-> <<"u4A6E">>,
         u2F9F9 |-> <<"u4A76">>, u2F9FA |-> <<"u97E0">>, u2F9FB |-> <<"u2940A">>, u2F9FC |-> <<"u4AB2">>,
         u2F9FD |-> <<"u29496">>, u2F9FE |-> <<"u980B">>, u2F9FF |-> <<"u980B">>, u2FA00 |-> <<"u9829">>,
         u2FA01 |-> <<"u295B6">>, u2FA02 |-> <<"u98E2">>, u2FA03 |-> <<"u4B33">>, u2FA04 |-> <<"u9929">>,
         u2FA05 |-> <<"u99A7">>, u2FA06 |-> <<"u99C2">>, u2FA07 |-> <<"u99FE">>, u2FA08 |-> <<"u4BCE">>,
         u2FA09 |-> <<"u29B30">>, u2FA0A |-> <<"u9B12">>, u2FA0B |-> <<"u9C40">>, u2FA0C |-> <<"u9CFD">>,
         u2FA0D |-> <<"u4CCE">>, u2FA0E |-> <<"u4CED">>, u2FA0F |-> <<"u9D67">>, u2FA10 |-> <<"u2A0CE">>,
         u2FA11 |-> <<"u4CF8">>, u2FA12 |-> <<"u2A105">>, u2FA13 |-> <<"u2A20E">>, u2FA14 |-> <<"u2A291">>,
         u2FA15 |-> <<"u9EBB">>, u2FA16 |-> <<"u4D56">>, u2FA17 |-> <<"u9EF9">>, u2FA18 |-> <<"u9EFE">>,
         u2FA19 |-> <<"u9F05">>, u2FA1A |-> <<"u9F0F">>, u2FA1B |-> <<"u9F16">>, u2FA1C |-> <<"u9F3B">>,
         u2FA1D |-> <<"u2A600">>],
     decomposed |->
        {"u00A0", "u00A8", "u00AA", "u00AF", "u00B2", "u00B3", "u00B4", "u00B5", "u00B8", "u00B9", "u00BA",
         "u00BC", "u00BD", "u00BE", "u00C0", "u00C1", "u00C2", "u00C3", "u00C4", "u00C5", "u00C7", "u00C8",
         "u00C9", "u00CA", "u00CB", "u00CC", "u00CD", "u00CE", "u00CF", "u00D1", "u00D2", "u00D3", "u00D4",
         "u00D5", "u00D6", "u00D9", "u00DA", "u00DB", "u00DC", "u00DD", "u00E0", "u00E1", "u00E2", "u00E3",
         "u00E4", "u00E5", "u00E7", "u00E8", "u00E9", "u00EA", "u00EB", "u00EC", "u00ED", "u00EE", "u00EF",
         "u00F1", "u00F2", "u00F3", "u00F4", "u00F5", "u00F6", "u00F9", "u00FA", "u00FB", "u00FC", "u00FD",
         "u00FF", "u0100", "u0101", "u0102", "u0103", "u0104", "u0105", "u0106", "u0107", "u0108", "u0109",
         "u010A", "u010B", "u010C", "u010D", "u010E", "u010F", "u0112", "u0113", "u0114", "u0115", "u0116",
         "u0117", "u0118", "u0119", "u011A", "u011B", "u011C", "u011D", "u011E", "u011F", "u0120", "u0121",
         "u0122", "u0123", "u0124", "u0125", "u0128", "u0129", "u012A", "u012B", "u012C", "u012D", "u012E",
         "u012F", "u0130", "u0132", "u0133", "u0134", "u0135", "u0136", "u0137", "u0139", "u013A", "u013B",
         "u013C", "u013D", "u013E", "u013F", "u0140", "u0143", "u0144", "u0145", "u0146", "u0147", "u0148",
         "u0149", "u014C", "u014D", "u014E", "u014F", "u0150", "u0151", "u0154", "u0155", "u0156", "u0157",
         "u0158", "u0159", "u015A", "u015B", "u015C", "u015D", "u015E", "u015F", "u0160", "u0161", "u0162",
         "u0163", "u0164", "u0165", "u0168", "u0169", "u016A", "u016B", "u016C", "u016D", "u016E", "u016F",
         "u0170", "u0171", "u0172", "u0173", "u0174", "u0175", "u0176", "u0177", "u0178", "u0179", "u017A",
         "u017B", "u017C", "u017D", "u017E", "u017F", "u01A0", "u01A1", "u01AF", "u01B0", "u01C4", "u01C5",
         "u01C6", "u01C7", "u01C8", "u01C9", "u01CA", "u01CB", "u01CC", "u01CD", "u01CE", "u01CF", "u01D0",
         "u01D1", "u01D2", "u01D3", "u01D4", "u01D5", "u01D6", "u01D7", "u01D8", "u01D9", "u01DA", "u01DB",
         "u01DC", "u01DE", "u01DF", "u01E0", "u01E1", "u01E2", "u01E3", "u01E6", "u01E7", "u01E8", "u01E9",
         "u01EA", "u01EB", "u01EC", "u01ED", "u01EE", "u01EF", "u01F0", "u01F1", "u01F2", "u01F3", "u01F4",
         "u01F5", "u01F8", "u01F9", "u01FA", "u01FB", "u01FC", "u01FD", "u01FE", "u01FF", "u0200", "u0201",
         "u0202", "u0203", "u0204", "u0205", "u0206", "u0207", "u0208", "u0209", "u020A", "u020B", "u020C",
         "u020D", "u020E", "u020F", "u0210", "u0211", "u0212", "u0213", "u0214", "u0215", "u0216", "u0217",
         "u0218", "u0219", "u021A", "u021B", "u021E", "u021F", "u0226", "u0227", "u0228", "u0229", "u022A",
         "u022B", "u022C", "u022D", "u022E", "u022F", "u0230", "u0231", "u0232", "u0233", "u02B0", "u02B1",
         "u02B2", "u02B3", "u02B4", "u02B5", "u02B6", "u02B7", "u02B8", "u02D8", "u02D9", "u02DA", "u02DB",
         "u02DC", "u02DD", "u02E0", "u02E1", "u02E2", "u02E3", "u02E4", "u0340", "u0341", "u0343", "u0344",
         "u0374", "u037A", "u037E", "u0384", "u0385", "u0386", "u0387", "u0388", "u0389", "u038A", "u038C",
         "u038E", "u038F", "u0390", "u03AA", "u03AB", "u03AC", "u03AD", "u03AE", "u03AF", "u03B0", "u03CA",
         "u03CB", "u03CC", "u03CD", "u03CE", "u03D0", "u03D1", "u03D2", "u03D3", "u03D4", "u03D5", "u03D6",
         "u03F0", "u03F1", "u03F2", "u03F4", "u03F5", "u03F9", "u0400", "u0401", "u0403", "u0407", "u040C",
         "u040D", "u040E", "u0419", "u0439", "u0450", "u0451", "u0453", "u0457", "u045C", "u045D", "u045E",
         "u0476", "u0477", "u04C1", "u04C2", "u04D0", "u04D1", "u04D2", "u04D3", "u04D6", "u04D7", "u04DA",
         "u04DB", "u04DC", "u04DD", "u04DE", "u04DF", "u04E2", "u04E3", "u04E4", "u04E5", "u04E6", "u04E7",
         "u04EA", "u04EB", "u04EC", "u04ED", "u04EE", "u04EF", "u04F0", "u04F1", "u04F2", "u04F3", "u04F4",
         "u04F5", "u04F8", "u04F9", "u0587", "u0622", "u0623", "u0624", "u0625", "u0626", "u0675", "u0676",
         "u0677", "u0678", "u06C0", "u06C2", "u06D3", "u0929", "u0931", "u0934", "u0958", "u0959", "u095A",
         "u095B", "u095C", "u095D", "u095E", "u095F", "u09CB", "u09CC", "u09DC", "u09DD", "u09DF", "u0A33",
         "u0A36", "u0A59", "u0A5A", "u0A5B", "u0A5E", "u0B48", "u0B4B", "u0B4C", "u0B5C", "u0B5D", "u0B94",
         "u0BCA", "u0BCB", "u0BCC", "u0C48", "u0CC0", "u0CC7", "u0CC8", "u0CCA", "u0CCB", "u0D4A", "u0D4B",
         "u0D4C", "u0DDA", "u0DDC", "u0DDD", "u0DDE", "u0E33", "u0EB3", "u0EDC", "u0EDD", "u0F0C", "u0F43",
         "u0F4D", "u0F52", "u0F57", "u0F5C", "u0F69", "u0F73", "u0F75", "u0F76", "u0F77", "u0F78", "u0F79",
         "u0F81", "u0F93", "u0F9D", "u0FA2", "u0FA7", "u0FAC", "u0FB9", "u1026", "u10FC", "u1B06", "u1B08",
         "u1B0A", "u1B0C", "u1B0E", "u1B12", "u1B3B", "u1B3D", "u1B40", "u1B41", "u1B43", "u1D2C", "u1D2D",
         "u1D2E", "u1D30", "u1D31", "u1D32", "u1D33", "u1D34", "u1D35", "u1D36", "u1D37", "u1D38", "u1D39",
         "u1D3A", "u1D3C", "u1D3D", "u1D3E", "u1D3F", "u1D40", "u1D41", "u1D42", "u1D43", "u1D44", "u1D45",
         "u1D46", "u1D47", "u1D48", "u1D49", "u1D4A", "u1D4B", "u1D4C", "u1D4D", "u1D4F", "u1D50", "u1D51",
         "u1D52", "u1D53", "u1D54", "u1D55", "u1D56", "u1D57", "u1D58", "u1D59", "u1D5A", "u1D5B", "u1D5C",
         "u1D5D", "u1D5E", "u1D5F", "u1D60", "u1D61", "u1D62", "u1D63", "u1D64", "u1D65", "u1D66", "u1D67",
         "u1D68", "u1D69", "u1D6A", "u1D78", "u1D9B", "u1D9C", "u1D9D", "u1D9E", "u1D9F", "u1DA0", "u1DA1",
         "u1DA2", "u1DA3", "u1DA4", "u1DA5", "u1DA6", "u1DA7", "u1DA8", "u1DA9", "u1DAA", "u1DAB", "u1DAC",
         "u1DAD", "u1DAE", "u1DAF", "u1DB0", "u1DB1", "u1DB2", "u1DB3", "u1DB4", "u1DB5", "u1DB6", "u1DB7",
         "u1DB8", "u1DB9", "u1DBA", "u1DBB", "u1DBC", "u1DBD", "u1DBE", "u1DBF", "u1E00", "u1E01", "u1E02",
         "u1E03", "u1E04", "u1E05", "u1E06", "u1E07", "u1E08", "u1E09", "u1E0A", "u1E0B", "u1E0C", "u1E0D",
         "u1E0E", "u1E0F", "u1E10", "u1E11", "u1E12", "u1E13", "u1E14", "u1E15", "u1E16", "u1E17", "u1E18",
         "u1E19", "u1E1A", "u1E1B", "u1E1C", "u1E1D", "u1E1E", "u1E1F", "u1E20", "u1E21", "u1E22", "u1E23",
         "u1E24", "u1E25", "u1E26", "u1E27", "u1E28", "u1E29", "u1E2A", "u1E2B", "u1E2C", "u1E2D", "u1E2E",
         "u1E2F", "u1E30", "u1E31", "u1E32", "u1E33", "u1E34", "u1E35", "u1E36", "u1E37", "u1E38", "u1E39",
         "u1E3A", "u1E3B", "u1E3C", "u1E3D", "u1E3E", "u1E3F", "u1E40", "u1E41", "u1E42", "u1E43", "u1E44",
         "u1E45", "u1E46", "u1E47", "u1E48", "u1E49", "u1E4A", "u1E4B", "u1E4C", "u1E4D", "u1E4E", "u1E4F",
         "u1E50", "u1E51", "u1E52", "u1E53", "u1E54", "u1E55", "u1E56", "u1E57", "u1E58", "u1E59", "u1E5A",
         "u1E5B", "u1E5C", "u1E5D", "u1E5E", "u1E5F", "u1E60", "u1E61", "u1E62", "u1E63", "u1E64", "u1E65",
         "u1E66", "u1E67", "u1E68", "u1E69", "u1E6A", "u1E6B", "u1E6C", "u1E6D", "u1E6E", "u1E6F", "u1E70",
         "u1E71", "u1E72", "u1E73", "u1E74", "u1E75", "u1E76", "u1E77", "u1E78", "u1E79", "u1E7A", "u1E7B",
         "u1E7C", "u1E7D", "u1E7E", "u1E7F", "u1E80", "u1E81", "u1E82", "u1E83", "u1E84", "u1E85", "u1E86",
         "u1E87", "u1E88", "u1E89", "u1E8A", "u1E8B", "u1E8C", "u1E8D", "u1E8E", "u1E8F", "u1E90", "u1E91",
         "u1E92", "u1E93", "u1E94", "u1E95", "u1E96", "u1E97", "u1E98", "u1E99", "u1E9A", "u1E9B", "u1EA0",
         "u1EA1", "u1EA2", "u1EA3", "u1EA4", "u1EA5", "u1EA6", "u1EA7", "u1EA8", "u1EA9", "u1EAA", "u1EAB",
         "u1EAC", "u1EAD", "u1EAE", "u1EAF", "u1EB0", "u1EB1", "u1EB2", "u1EB3", "u1EB4", "u1EB5", "u1EB6",
         "u1EB7", "u1EB8", "u1EB9", "u1EBA", "u1EBB", "u1EBC", "u1EBD", "u1EBE", "u1EBF", "u1EC0", "u1EC1",
         "u1EC2", "u1EC3", "u1EC4", "u1EC5", "u1EC6", "u1EC7", "u1EC8", "u1EC9", "u1ECA", "u1ECB", "u1ECC",
         "u1ECD", "u1ECE", "u1ECF", "u1ED0", "u1ED1", "u1ED2", "u1ED3", "u1ED4", "u1ED5", "u1ED6", "u1ED7",
         "u1ED8", "u1ED9", "u1EDA", "u1EDB", "u1EDC", "u1EDD", "u1EDE", "u1EDF", "u1EE0", "u1EE1", "u1EE2",
         "u1EE3", "u1EE4", "u1EE5", "u1EE6", "u1EE7", "u1EE8", "u1EE9", "u1EEA", "u1EEB", "u1EEC", "u1EED",
         "u1EEE", "u1EEF", "u1EF0", "u1EF1", "u1EF2", "u1EF3", "u1EF4", "u1EF5", "u1EF6", "u1EF7", "u1EF8",
         "u1EF9", "u1F00", "u1F01", "u1F02", "u1F03", "u1F04", "u1F05", "u1F06", "u1F07", "u1F08", "u1F09",
         "u1F0A", "u1F0B", "u1F0C", "u1F0D", "u1F0E", "u1F0F", "u1F10", "u1F11", "u1F12", "u1F13", "u1F14",
         "u1F15", "u1F18", "u1F19", "u1F1A", "u1F1B", "u1F1C", "u1F1D", "u1F20", "u1F21", "u1F22", "u1F23",
         "u1F24", "u1F25", "u1F26", "u1F27", "u1F28", "u1F29", "u1F2A", "u1F2B", "u1F2C", "u1F2D", "u1F2E",
         "u1F2F", "u1F30", "u1F31", "u1F32", "u1F33", "u1F34", "u1F35", "u1F36", "u1F37", "u1F38", "u1F39",
         "u1F3A", "u1F3B", "u1F3C", "u1F3D", "u1F3E", "u1F3F", "u1F40", "u1F41", "u1F42", "u1F43", "u1F44",
         "u1F45", "u1F48", "u1F49", "u1F4A", "u1F4B", "u1F4C", "u1F4D", "u1F50", "u1F51", "u1F52", "u1F53",
         "u1F54", "u1F55", "u1F56", "u1F57", "u1F59", "u1F5B", "u1F5D", "u1F5F", "u1F60", "u1F61", "u1F62",
         "u1F63", "u1F64", "u1F65", "u1F66", "u1F67", "u1F68", "u1F69", "u1F6A", "u1F6B", "u1F6C", "u1F6D",
         "u1F6E", "u1F6F", "u1F70", "u1F71", "u1F72", "u1F73", "u1F74", "u1F75", "u1F76", "u1F77", "u1F78",
         "u1F79", "u1F7A", "u1F7B", "u1F7C", "u1F7D", "u1F80", "u1F81", "u1F82", "u1F83", "u1F84", "u1F85",
         "u1F86", "u1F87", "u1F88", "u1F89", "u1F8A", "u1F8B", "u1F8C", "u1F8D", "u1F8E", "u1F8F", "u1F90",
         "u1F91", "u1F92", "u1F93", "u1F94", "u1F95", "u1F96", "u1F97", "u1F98", "u1F99", "u1F9A", "u1F9B",
         "u1F9C", "u1F9D", "u1F9E", "u1F9F", "u1FA0", "u1FA1", "u1FA2", "u1FA3", "u1FA4", "u1FA5", "u1FA6",
         "u1FA7", "u1FA8", "u1FA9", "u1FAA", "u1FAB", "u1FAC", "u1FAD", "u1FAE", "u1FAF", "u1FB0", "u1FB1",
         "u1FB2", "u1FB3", "u1FB4", "u1FB6", "u1FB7", "u1FB8", "u1FB9", "u1FBA", "u1FBB", "u1FBC", "u1FBD",
         "u1FBE", "u1FBF", "u1FC0", "u1FC1", "u1FC2", "u1FC3", "u1FC4", "u1FC6", "u1FC7", "u1FC8", "u1FC9",
         "u1FCA", "u1FCB", "u1FCC", "u1FCD", "u1FCE", "u1FCF", "u1FD0", "u1FD1", "u1FD2", "u1FD3", "u1FD6",
         "u1FD7", "u1FD8", "u1FD9", "u1FDA", "u1FDB", "u1FDD", "u1FDE", "u1FDF", "u1FE0", "u1FE1", "u1FE2",
         "u1FE3", "u1FE4", "u1FE5", "u1FE6", "u1FE7", "u1FE8", "u1FE9", "u1FEA", "u1FEB", "u1FEC", "u1FED",
         "u1FEE", "u1FEF", "u1FF2", "u1FF3", "u1FF4", "u1FF6", "u1FF7", "u1FF8", "u1FF9", "u1FFA", "u1FFB",
         "u1FFC", "u1FFD", "u1FFE", "u2000", "u2001", "u2002", "u2003", "u2004", "u2005", "u2006", "u2007",
         "u2008", "u2009", "u200A", "u2011", "u2017", "u2024", "u2025", "u2026", "u202F", "u2033", "u2034",
         "u2036", "u2037", "u203C", "u203E", "u2047", "u2048", "u2049", "u2057", "u205F", "u2070", "u2071",
         "u2074", "u2075", "u2076", "u2077", "u2078", "u2079", "u207A", "u207B", "u207C", "u207D", "u207E",
         "u207F", "u2080", "u2081", "u2082", "u2083", "u2084", "u2085", "u2086", "u2087", "u2088", "u2089",
         "u208A", "u208B", "u208C", "u208D", "u208E", "u2090", "u2091", "u2092", "u2093", "u2094", "u2095",
         "u2096", "u2097", "u2098", "u2099", "u209A", "u209B", "u209C", "u20A8", "u2100", "u2101", "u2102",
         "u2103", "u2105", "u2106", "u2107", "u2109", "u210A", "u210B", "u210C", "u210D", "u210E", "u210F",
         "u2110", "u2111", "u2112", "u2113", "u2115", "u2116", "u2119", "u211A", "u211B", "u211C", "u211D",
         "u2120", "u2121", "u2122", "u2124", "u2126", "u2128", "u212A", "u212B", "u212C", "u212D", "u212F",
         "u2130", "u2131", "u2133", "u2134", "u2135", "u2136", "u2137", "u2138", "u2139", "u213B", "u213C",
         "u213D", "u213E", "u213F", "u2140", "u2145", "u2146", "u2147", "u2148", "u2149", "u2150", "u2151",
         "u2152", "u2153", "u2154", "u2155", "u2156", "u2157", "u2158", "u2159", "u215A", "u215B", "u215C",
         "u215D", "u215E", "u215F", "u2160", "u2161", "u2162", "u2163", "u2164", "u2165", "u2166", "u2167",
         "u2168", "u2169", "u216A", "u216B", "u216C", "u216D", "u216E", "u216F", "u2170", "u2171", "u2172",
         "u2173", "u2174", "u2175", "u2176", "u2177", "u2178", "u2179", "u217A", "u217B", "u217C", "u217D",
         "u217E", "u217F", "u2189", "u219A", "u219B", "u21AE", "u21CD", "u21CE", "u21CF", "u2204", "u2209",
         "u220C", "u2224", "u2226", "u222C", "u222D", "u222F", "u2230", "u2241", "u2244", "u2247", "u2249",
         "u2260", "u2262", "u226D", "u226E", "u226F", "u2270", "u2271", "u2274", "u2275", "u2278", "u2279",
         "u2280", "u2281", "u2284", "u2285", "u2288", "u2289", "u22AC", "u22AD", "u22AE", "u22AF", "u22E0",
         "u22E1", "u22E2", "u22E3", "u22EA", "u22EB", "u22EC", "u22ED", "u2329", "u232A", "u2460", "u2461",
         "u2462", "u2463", "u2464", "u2465", "u2466", "u2467", "u2468", "u2469", "u246A", "u246B", "u246C",
         "u246D", "u246E", "u246F", "u2470", "u2471", "u2472", "u2473", "u2474", "u2475", "u2476", "u2477",
         "u2478", "u2479", "u247A", "u247B", "u247C", "u247D", "u247E", "u247F", "u2480", "u2481", "u2482",
         "u2483", "u2484", "u2485", "u2486", "u2487", "u2488", "u2489", "u248A", "u248B", "u248C", "u248D",
         "u248E", "u248F", "u2490", "u2491", "u2492", "u2493", "u2494", "u2495", "u2496", "u2497", "u2498",
         "u2499", "u249A", "u249B", "u249C", "u249D", "u249E", "u249F", "u24A0", "u24A1", "u24A2", "u24A3",
         "u24A4", "u24A5", "u24A6", "u24A7", "u24A8", "u24A9", "u24AA", "u24AB", "u24AC", "u24AD", "u24AE",
         "u24AF", "u24B0", "u24B1", "u24B2", "u24B3", "u24B4", "u24B5", "u24B6", "u24B7", "u24B8", "u24B9",
         "u24BA", "u24BB", "u24BC", "u24BD", "u24BE", "u24BF", "u24C0", "u24C1", "u24C2", "u24C3", "u24C4",
         "u24C5", "u24C6", "u24C7", "u24C8", "u24C9", "u24CA", "u24CB", "u24CC", "u24CD", "u24CE", "u24CF",
         "u24D0", "u24D1", "u24D2", "u24D3", "u24D4", "u24D5", "u24D6", "u24D7", "u24D8", "u24D9", "u24DA",
         "u24DB", "u24DC", "u24DD", "u24DE", "u24DF", "u24E0", "u24E1", "u24E2", "u24E3", "u24E4", "u24E5",
         "u24E6", "u24E7", "u24E8", "u24E9", "u24EA", "u2A0C", "u2A74", "u2A75", "u2A76", "u2ADC", "u2C7C",
         "u2C7D", "u2D6F", "u2E9F", "u2EF3", "u2F00", "u2F01", "u2F02", "u2F03", "u2F04", "u2F05", "u2F06",
         "u2F07", "u2F08", "u2F09", "u2F0A", "u2F0B", "u2F0C", "u2F0D", "u2F0E", "u2F0F", "u2F10", "u2F11",
         "u2F12", "u2F13", "u2F14", "u2F15", "u2F16", "u2F17", "u2F18", "u2F19", "u2F1A", "u2F1B", "u2F1C",
         "u2F1D", "u2F1E", "u2F1F", "u2F20", "u2F21", "u2F22", "u2F23", "u2F24", "u2F25", "u2F26", "u2F27",
         "u2F28", "u2F29", "u2F2A", "u2F2B", "u2F2C", "u2F2D", "u2F2E", "u2F2F", "u2F30", "u2F31", "u2F32",
         "u2F33", "u2F34", "u2F35", "u2F36", "u2F37", "u2F38", "u2F39", "u2F3A", "u2F3B", "u2F3C", "u2F3D",
         "u2F3E", "u2F3F", "u2F40", "u2F41", "u2F42", "u2F43", "u2F44", "u2F45", "u2F46", "u2F47", "u2F48",
         "u2F49", "u2F4A", "u2F4B", "u2F4C", "u2F4D", "u2F4E", "u2F4F", "u2F50", "u2F51", "u2F52", "u2F53",
         "u2F54", "u2F55", "u2F56", "u2F57", "u2F58", "u2F59", "u2F5A", "u2F5B", "u2F5C", "u2F5D", "u2F5E",
         "u2F5F", "u2F60", "u2F61", "u2F62", "u2F63", "u2F64", "u2F65", "u2F66", "u2F67", "u2F68", "u2F69",
         "u2F6A", "u2F6B", "u2F6C", "u2F6D", "u2F6E", "u2F6F", "u2F70", "u2F71", "u2F72", "u2F73", "u2F74",
         "u2F75", "u2F76", "u2F77", "u2F78", "u2F79", "u2F7A", "u2F7B", "u2F7C", "u2F7D", "u2F7E", "u2F7F",
         "u2F80", "u2F81", "u2F82", "u2F83", "u2F84", "u2F85", "u2F86", "u2F87", "u2F88", "u2F89", "u2F8A",
         "u2F8B", "u2F8C", "u2F8D", "u2F8E", "u2F8F", "u2F90", "u2F91", "u2F92", "u2F93", "u2F94", "u2F95",
         "u2F96", "u2F97", "u2F98", "u2F99", "u2F9A", "u2F9B", "u2F9C", "u2F9D", "u2F9E", "u2F9F", "u2FA0",
         "u2FA1", "u2FA2", "u2FA3", "u2FA4", "u2FA5", "u2FA6", "u2FA7", "u2FA8", "u2FA9", "u2FAA", "u2FAB",
         "u2FAC", "u2FAD", "u2FAE", "u2FAF", "u2FB0", "u2FB1", "u2FB2", "u2FB3", "u2FB4", "u2FB5", "u2FB6",
         "u2FB7", "u2FB8", "u2FB9", "u2FBA", "u2FBB", "u2FBC", "u2FBD", "u2FBE", "u2FBF", "u2FC0", "u2FC1",
         "u2FC2", "u2FC3", "u2FC4", "u2FC5", "u2FC6", "u2FC7", "u2FC8", "u2FC9", "u2FCA", "u2FCB", "u2FCC",
         "u2FCD", "u2FCE", "u2FCF", "u2FD0", "u2FD1", "u2FD2", "u2FD3", "u2FD4", "u2FD5", "u3000", "u3036",
         "u3038", "u3039", "u303A", "u304C", "u304E", "u3050", "u3052", "u3054", "u3056", "u3058", "u305A",
         "u305C", "u305E", "u3060", "u3062", "u3065", "u3067", "u3069", "u3070", "u3071", "u3073", "u3074",
         "u3076", "u3077", "u3079", "u307A", "u307C", "u307D", "u3094", "u309B", "u309C", "u309E", "u309F",
         "u30AC", "u30AE", "u30B0", "u30B2", "u30B4", "u30B6", "u30B8", "u30BA", "u30BC", "u30BE", "u30C0",
         "u30C2", "u30C5", "u30C7", "u30C9", "u30D0", "u30D1", "u30D3", "u30D4", "u30D6", "u30D7", "u30D9",
         "u30DA", "u30DC", "u30DD", "u30F4", "u30F7", "u30F8", "u30F9", "u30FA", "u30FE", "u30FF", "u3131",
         "u3132", "u3133", "u3134", "u3135", "u3136", "u3137", "u3138", "u3139", "u313A", "u313B", "u313C",
         "u313D", "u313E", "u313F", "u3140", "u3141", "u3142", "u3143", "u3144", "u3145", "u3146", "u3147",
         "u3148", "u3149", "u314A", "u314B", "u314C", "u314D", "u314E", "u314F", "u3150", "u3151", "u3152",
         "u3153", "u3154", "u3155", "u3156", "u3157", "u3158", "u3159", "u315A", "u315B", "u315C", "u315D",
         "u315E", "u315F", "u3160", "u3161", "u3162", "u3163", "u3164", "u3165", "u3166", "u3167", "u3168",
         "u3169", "u316A", "u316B", "u316C", "u316D", "u316E", "u316F", "u3170", "u3171", "u3172", "u3173",
         "u3174", "u3175", "u3176", "u3177", "u3178", "u3179", "u317A", "u317B", "u317C", "u317D", "u317E",
         "u317F", "u3180", "u3181", "u3182", "u3183", "u3184", "u3185", "u3186", "u3187", "u3188", "u3189",
         "u318A", "u318B", "u318C", "u318D", "u318E", "u3192", "u3193", "u3194", "u3195", "u3196", "u3197",
         "u3198", "u3199", "u319A", "u319B", "u319C", "u319D", "u319E", "u319F", "u3200", "u3201", "u3202",
         "u3203", "u3204", "u3205", "u3206", "u3207", "u3208", "u3209", "u320A", "u320B", "u320C", "u320D",
         "u320E", "u320F", "u3210", "u3211", "u3212", "u3213", "u3214", "u3215", "u3216", "u3217", "u3218",
         "u3219", "u321A", "u321B", "u321C", "u321D", "u321E", "u3220", "u3221", "u3222", "u3223", "u3224",
         "u3225", "u3226", "u3227", "u3228", "u3229", "u322A", "u322B", "u322C", "u322D", "u322E", "u322F",
         "u3230", "u3231", "u3232", "u3233", "u3234", "u3235", "u3236", "u3237", "u3238", "u3239", "u323A",
         "u323B", "u323C", "u323D", "u323E", "u323F", "u3240", "u3241", "u3242", "u3243", "u3244", "u3245",
         "u3246", "u3247", "u3250", "u3251", "u3252", "u3253", "u3254", "u3255", "u3256", "u3257", "u3258",
         "u3259", "u325A", "u325B", "u325C", "u325D", "u325E", "u325F", "u3260", "u3261", "u3262", "u3263",
         "u3264", "u3265", "u3266", "u3267", "u3268", "u3269", "u326A", "u326B", "u326C", "u326D", "u326E",
         "u326F", "u3270", "u3271", "u3272", "u3273", "u3274", "u3275", "u3276", "u3277", "u3278", "u3279",
         "u327A", "u327B", "u327C", "u327D", "u327E", "u3280", "u3281", "u3282", "u3283", "u3284", "u3285",
         "u3286", "u3287", "u3288", "u3289", "u328A", "u328B", "u328C", "u328D", "u328E", "u328F", "u3290",
         "u3291", "u3292", "u3293", "u3294", "u3295", "u3296", "u3297", "u3298", "u3299", "u329A", "u329B",
         "u329C", "u329D", "u329E", "u329F", "u32A0", "u32A1", "u32A2", "u32A3", "u32A4", "u32A5", "u32A6",
         "u32A7", "u32A8", "u32A9", "u32AA", "u32AB", "u32AC", "u32AD", "u32AE", "u32AF", "u32B0", "u32B1",
         "u32B2", "u32B3", "u32B4", "u32B5", "u32B6", "u32B7", "u32B8", "u32B9", "u32BA", "u32BB", "u32BC",
         "u32BD", "u32BE", "u32BF", "u32C0", "u32C1", "u32C2", "u32C3", "u32C4", "u32C5", "u32C6", "u32C7",
         "u32C8", "u32C9", "u32CA", "u32CB", "u32CC", "u32CD", "u32CE", "u32CF", "u32D0", "u32D1", "u32D2",
         "u32D3", "u32D4", "u32D5", "u32D6", "u32D7", "u32D8", "u32D9", "u32DA", "u32DB", "u32DC", "u32DD",
         "u32DE", "u32DF", "u32E0", "u32E1", "u32E2", "u32E3", "u32E4", "u32E5", "u32E6", "u32E7", "u32E8",
         "u32E9", "u32EA", "u32EB", "u32EC", "u32ED", "u32EE", "u32EF", "u32F0", "u32F1", "u32F2", "u32F3",
         "u32F4", "u32F5", "u32F6", "u32F7", "u32F8", "u32F9", "u32FA", "u32FB", "u32FC", "u32FD", "u32FE",
         "u32FF", "u3300", "u3301", "u3302", "u3303", "u3304", "u3305", "u3306", "u3307", "u3308", "u3309",
         "u330A", "u330B", "u330C", "u330D", "u330E", "u330F", "u3310", "u3311", "u3312", "u3313", "u3314",
         "u3315", "u3316", "u3317", "u3318", "u3319", "u331A", "u331B", "u331C", "u331D", "u331E", "u331F",
         "u3320", "u3321", "u3322", "u3323", "u3324", "u3325", "u3326", "u3327", "u3328", "u3329", "u332A",
         "u332B", "u332C", "u332D", "u332E", "u332F", "u3330", "u3331", "u3332", "u3333", "u3334", "u3335",
         "u3336", "u3337", "u3338", "u3339", "u333A", "u333B", "u333C", "u333D", "u333E", "u333F", "u3340",
         "u3341", "u3342", "u3343", "u3344", "u3345", "u3346", "u3347", "u3348", "u3349", "u334A", "u334B",
         "u334C", "u334D", "u334E", "u334F", "u3350", "u3351", "u3352", "u3353", "u3354", "u3355", "u3356",
         "u3357", "u3358", "u3359", "u335A", "u335B", "u335C", "u335D", "u335E", "u335F", "u3360", "u3361",
         "u3362", "u3363", "u3364", "u3365", "u3366", "u3367", "u3368", "u3369", "u336A", "u336B", "u336C",
         "u336D", "u336E", "u336F", "u3370", "u3371", "u3372", "u3373", "u3374", "u3375", "u3376", "u3377",
         "u3378", "u3379", "u337A", "u337B", "u337C", "u337D", "u337E", "u337F", "u3380", "u3381", "u3382",
         "u3383", "u3384", "u3385", "u3386", "u3387", "u3388", "u3389", "u338A", "u338B", "u338C", "u338D",
         "u338E", "u338F", "u3390", "u3391", "u3392", "u3393", "u3394", "u3395", "u3396", "u3397", "u3398",
         "u3399", "u339A", "u339B", "u339C", "u339D", "u339E", "u339F", "u33A0", "u33A1", "u33A2", "u33A3",
         "u33A4", "u33A5", "u33A6", "u33A7", "u33A8", "u33A9", "u33AA", "u33AB", "u33AC", "u33AD", "u33AE",
         "u33AF", "u33B0", "u33B1", "u33B2", "u33B3", "u33B4", "u33B5", "u33B6", "u33B7", "u33B8", "u33B9",
         "u33BA", "u33BB", "u33BC", "u33BD", "u33BE", "u33BF", "u33C0", "u33C1", "u33C2", "u33C3", "u33C4",
         "u33C5", "u33C6", "u33C7", "u33C8", "u33C9", "u33CA", "u33CB", "u33CC", "u33CD", "u33CE", "u33CF",
         "u33D0", "u33D1", "u33D2", "u33D3", "u33D4", "u33D5", "u33D6", "u33D7", "u33D8", "u33D9", "u33DA",
         "u33DB", "u33DC", "u33DD", "u33DE", "u33DF", "u33E0", "u33E1", "u33E2", "u33E3", "u33E4", "u33E5",
         "u33E6", "u33E7", "u33E8", "u33E9", "u33EA", "u33EB", "u33EC", "u33ED", "u33EE", "u33EF", "u33F0",
         "u33F1", "u33F2", "u33F3", "u33F4", "u33F5", "u33F6", "u33F7", "u33F8", "u33F9", "u33FA", "u33FB",
         "u33FC", "u33FD", "u33FE", "u33FF", "uA69C", "uA69D", "uA770", "uA7F2", "uA7F3", "uA7F4", "uA7F8",
         "uA7F9", "uAB5C", "uAB5D", "uAB5E", "uAB5F", "uAB69", "uF900", "uF901", "uF902", "uF903", "uF904",
         "uF905", "uF906", "uF907", "uF908", "uF909", "uF90A", "uF90B", "uF90C", "uF90D", "uF90E", "uF90F",
         "uF910", "uF911", "uF912", "uF913", "uF914", "uF915", "uF916", "uF917", "uF918", "uF919", "uF91A",
         "uF91B", "uF91C", "uF91D", "uF91E", "uF91F", "uF920", "uF921", "uF922", "uF923", "uF924", "uF925",
         "uF926", "uF927", "uF928", "uF929", "uF92A", "uF92B", "uF92C", "uF92D", "uF92E", "uF92F", "uF930",
         "uF931", "uF932", "uF933", "uF934", "uF935", "uF936", "uF937", "uF938", "uF939", "uF93A", "uF93B",
         "uF93C", "uF93D", "uF93E", "uF93F", "uF940", "uF941", "uF942", "uF943", "uF944", "uF945", "uF946",
         "uF947", "uF948", "uF949", "uF94A", "uF94B", "uF94C", "uF94D", "uF94E", "uF94F", "uF950", "uF951",
         "uF952", "uF953", "uF954", "uF955", "uF956", "uF957", "uF958", "uF959", "uF95A", "uF95B", "uF95C",
         "uF95D", "uF95E", "uF95F", "uF960", "uF961", "uF962", "uF963", "uF964", "uF965", "uF966", "uF967",
         "uF968", "uF969", "uF96A", "uF96B", "uF96C", "uF96D", "uF96E", "uF96F", "uF970", "uF971", "uF972",
         "uF973", "uF974", "uF975", "uF976", "uF977", "uF978", "uF979", "uF97A", "uF97B", "uF97C", "uF97D",
         "uF97E", "uF97F", "uF980", "uF981", "uF982", "uF983", "uF984", "uF985", "uF986", "uF987", "uF988",
         "uF989", "uF98A", "uF98B", "uF98C", "uF98D", "uF98E", "uF98F", "uF990", "uF991", "uF992", "uF993",
         "uF994", "uF995", "uF996", "uF997", "uF998", "uF999", "uF99A", "uF99B", "uF99C", "uF99D", "uF99E",
         "uF99F", "uF9A0", "uF9A1", "uF9A2", "uF9A3", "uF9A4", "uF9A5", "uF9A6", "uF9A7", "uF9A8", "uF9A9",
         "uF9AA", "uF9AB", "uF9AC", "uF9AD", "uF9AE", "uF9AF", "uF9B0", "uF9B1", "uF9B2", "uF9B3", "uF9B4",
         "uF9B5", "uF9B6", "uF9B7", "uF9B8", "uF9B9", "uF9BA", "uF9BB", "uF9BC", "uF9BD", "uF9BE", "uF9BF",
         "uF9C0", "uF9C1", "uF9C2", "uF9C3", "uF9C4", "uF9C5", "uF9C6", "uF9C7", "uF9C8", "uF9C9", "uF9CA",
         "uF9CB", "uF9CC", "uF9CD", "uF9CE", "uF9CF", "uF9D0", "uF9D1", "uF9D2", "uF9D3", "uF9D4", "uF9D5",
         "uF9D6", "uF9D7", "uF9D8", "uF9D9", "uF9DA", "uF9DB", "uF9DC", "uF9DD", "uF9DE", "uF9DF", "uF9E0",
         "uF9E1", "uF9E2", "uF9E3", "uF9E4", "uF9E5", "uF9E6", "uF9E7", "uF9E8", "uF9E9", "uF9EA", "uF9EB",
         "uF9EC", "uF9ED", "uF9EE", "uF9EF", "uF9F0", "uF9F1", "uF9F2", "uF9F3", "uF9F4", "uF9F5", "uF9F6",
         "uF9F7", "uF9F8", "uF9F9", "uF9FA", "uF9FB", "uF9FC", "uF9FD", "uF9FE", "uF9FF", "uFA00", "uFA01",
         "uFA02", "uFA03", "uFA04", "uFA05", "uFA06", "uFA07", "uFA08", "uFA09", "uFA0A", "uFA0B", "uFA0C",
         "uFA0D", "uFA10", "uFA12", "uFA15", "uFA16", "uFA17", "uFA18", "uFA19", "uFA1A", "uFA1B", "uFA1C",
         "uFA1D", "uFA1E", "uFA20", "uFA22", "uFA25", "uFA26", "uFA2A", "uFA2B", "uFA2C", "uFA2D", "uFA2E",
         "uFA2F", "uFA30", "uFA31", "uFA32", "uFA33", "uFA34", "uFA35", "uFA36", "uFA37", "uFA38", "uFA39",
         "uFA3A", "uFA3B", "uFA3C", "uFA3D", "uFA3E", "uFA3F", "uFA40", "uFA41", "uFA42", "uFA43", "uFA44",
         "uFA45", "uFA46", "uFA47", "uFA48", "uFA49", "uFA4A", "uFA4B", "uFA4C", "uFA4D", "uFA4E", "uFA4F",
         "uFA50", "uFA51", "uFA52", "uFA53", "uFA54", "uFA55", "uFA56", "uFA57", "uFA58", "uFA59", "uFA5A",
         "uFA5B", "uFA5C", "uFA5D", "uFA5E", "uFA5F", "uFA60", "uFA61", "uFA62", "uFA63", "uFA64", "uFA65",
         "uFA66", "uFA67", "uFA68", "uFA69", "uFA6A", "uFA6B", "uFA6C", "uFA6D", "uFA70", "uFA71", "uFA72",
         "uFA73", "uFA74", "uFA75", "uFA76", "uFA77", "uFA78", "uFA79", "uFA7A", "uFA7B", "uFA7C", "uFA7D",
         "uFA7E", "uFA7F", "uFA80", "uFA81", "uFA82", "uFA83", "uFA84", "uFA85", "uFA86", "uFA87", "uFA88",
         "uFA89", "uFA8A", "uFA8B", "uFA8C", "uFA8D", "uFA8E", "uFA8F", "uFA90", "uFA91", "uFA92", "uFA93",
         "uFA94", "uFA95", "uFA96", "uFA97", "uFA98", "uFA99", "uFA9A", "uFA9B", "uFA9C", "uFA9D", "uFA9E",
         "uFA9F", "uFAA0", "uFAA1", "uFAA2", "uFAA3", "uFAA4", "uFAA5", "uFAA6", "uFAA7", "uFAA8", "uFAA9",
         "uFAAA", "uFAAB", "uFAAC", "uFAAD", "uFAAE", "uFAAF", "uFAB0", "uFAB1", "uFAB2", "uFAB3", "uFAB4",
         "uFAB5", "uFAB6", "uFAB7", "uFAB8", "uFAB9", "uFABA", "uFABB", "uFABC", "uFABD", "uFABE", "uFABF",
         "uFAC0", "uFAC1", "uFAC2", "uFAC3", "uFAC4", "uFAC5", "uFAC6", "uFAC7", "uFAC8", "uFAC9", "uFACA",
         "uFACB", "uFACC", "uFACD", "uFACE", "uFACF", "uFAD0", "uFAD1", "uFAD2", "uFAD3", "uFAD4", "uFAD5",
         "uFAD6", "uFAD7", "uFAD8", "uFAD9", "uFB00", "uFB01", "uFB02", "uFB03", "uFB04", "uFB05", "uFB06",
         "uFB13", "uFB14", "uFB15", "uFB16", "uFB17", "uFB1D", "uFB1F", "uFB20", "uFB21", "uFB22", "uFB23",
         "uFB24", "uFB25", "uFB26", "uFB27", "uFB28", "uFB29", "uFB2A", "uFB2B", "uFB2C", "uFB2D", "uFB2E",
         "uFB2F", "uFB30", "uFB31", "uFB32", "uFB33", "uFB34", "uFB35", "uFB36", "uFB38", "uFB39", "uFB3A",
         "uFB3B", "uFB3C", "uFB3E", "uFB40", "uFB41", "uFB43", "uFB44", "uFB46", "uFB47", "uFB48", "uFB49",
         "uFB4A", "uFB4B", "uFB4C", "uFB4D", "uFB4E", "uFB4F", "uFB50", "uFB51", "uFB52", "uFB53", "uFB54",
         "uFB55", "uFB56", "uFB57", "uFB58", "uFB59", "uFB5A", "uFB5B", "uFB5C", "uFB5D", "uFB5E", "uFB5F",
         "uFB60", "uFB61", "uFB62", "uFB63", "uFB64", "uFB65", "uFB66", "uFB67", "uFB68", "uFB69", "uFB6A",
         "uFB6B", "uFB6C", "uFB6D", "uFB6E", "uFB6F", "uFB70", "uFB71", "uFB72", "uFB73", "uFB74", "uFB75",
         "uFB76", "uFB77", "uFB78", "uFB79", "uFB7A", "uFB7B", "uFB7C", "uFB7D", "uFB7E", "uFB7F", "uFB80",
         "uFB81", "uFB82", "uFB83", "uFB84", "uFB85", "uFB86", "uFB87", "uFB88", "uFB89", "uFB8A", "uFB8B",
         "uFB8C", "uFB8D", "uFB8E", "uFB8F", "uFB90", "uFB91", "uFB92", "uFB93", "uFB94", "uFB95", "uFB96",
         "uFB97", "uFB98", "uFB99", "uFB9A", "uFB9B", "uFB9C", "uFB9D", "uFB9E", "uFB9F", "uFBA0", "uFBA1",
         "uFBA2", "uFBA3", "uFBA4", "uFBA5", "uFBA6", "uFBA7", "uFBA8", "uFBA9", "uFBAA", "uFBAB", "uFBAC",
         "uFBAD", "uFBAE", "uFBAF", "uFBB0", "uFBB1", "uFBD3", "uFBD4", "uFBD5", "uFBD6", "uFBD7", "uFBD8",
         "uFBD9", "uFBDA", "uFBDB", "uFBDC", "uFBDD", "uFBDE", "uFBDF", "uFBE0", "uFBE1", "uFBE2", "uFBE3",
         "uFBE4", "uFBE5", "uFBE6", "uFBE7", "uFBE8", "uFBE9", "uFBEA", "uFBEB", "uFBEC", "uFBED", "uFBEE",
         "uFBEF", "uFBF0", "uFBF1", "uFBF2", "uFBF3", "uFBF4", "uFBF5", "uFBF6", "uFBF7", "uFBF8", "uFBF9",
         "uFBFA", "uFBFB", "uFBFC", "uFBFD", "uFBFE", "uFBFF", "uFC00", "uFC01", "uFC02", "uFC03", "uFC04",
         "uFC05", "uFC06", "uFC07", "uFC08", "uFC09", "uFC0A", "uFC0B", "uFC0C", "uFC0D", "uFC0E", "uFC0F",
         "uFC10", "uFC11", "uFC12", "uFC13", "uFC14", "uFC15", "uFC16", "uFC17", "uFC18", "uFC19", "uFC1A",
         "uFC1B", "uFC1C", "uFC1D", "uFC1E", "uFC1F", "uFC20", "uFC21", "uFC22", "uFC23", "uFC24", "uFC25",
         "uFC26", "uFC27", "uFC28", "uFC29", "uFC2A", "uFC2B", "uFC2C", "uFC2D", "uFC2E", "uFC2F", "uFC30",
         "uFC31", "uFC32", "uFC33", "uFC34", "uFC35", "uFC36", "uFC37", "uFC38", "uFC39", "uFC3A", "uFC3B",
         "uFC3C", "uFC3D", "uFC3E", "uFC3F", "uFC40", "uFC41", "uFC42", "uFC43", "uFC44", "uFC45", "uFC46",
         "uFC47", "uFC48", "uFC49", "uFC4A", "uFC4B", "uFC4C", "uFC4D", "uFC4E", "uFC4F", "uFC50", "uFC51",
         "uFC52", "uFC53", "uFC54", "uFC55", "uFC56", "uFC57", "uFC58", "uFC59", "uFC5A", "uFC5B", "uFC5C",
         "uFC5D", "uFC5E", "uFC5F", "uFC60", "uFC61", "uFC62", "uFC63", "uFC64", "uFC65", "uFC66", "uFC67",
         "uFC68", "uFC69", "uFC6A", "uFC6B", "uFC6C", "uFC6D", "uFC6E", "uFC6F", "uFC70", "uFC71", "uFC72",
         "uFC73", "uFC74", "uFC75", "uFC76", "uFC77", "uFC78", "uFC79", "uFC7A", "uFC7B", "uFC7C", "uFC7D",
         "uFC7E", "uFC7F", "uFC80", "uFC81", "uFC82", "uFC83", "uFC84", "uFC85", "uFC86", "uFC87", "uFC88",
         "uFC89", "uFC8A", "uFC8B", "uFC8C", "uFC8D", "uFC8E", "uFC8F", "uFC90", "uFC91", "uFC92", "uFC93",
         "uFC94", "uFC95", "uFC96", "uFC97", "uFC98", "uFC99", "uFC9A", "uFC9B", "uFC9C", "uFC9D", "uFC9E",
         "uFC9F", "uFCA0", "uFCA1", "uFCA2", "uFCA3", "uFCA4", "uFCA5", "uFCA6", "uFCA7", "uFCA8", "uFCA9",
         "uFCAA", "uFCAB", "uFCAC", "uFCAD", "uFCAE", "uFCAF", "uFCB0", "uFCB1", "uFCB2", "uFCB3", "uFCB4",
         "uFCB5", "uFCB6", "uFCB7", "uFCB8", "uFCB9", "uFCBA", "uFCBB", "uFCBC", "uFCBD", "uFCBE", "uFCBF",
         "uFCC0", "uFCC1", "uFCC2", "uFCC3", "uFCC4", "uFCC5", "uFCC6", "uFCC7", "uFCC8", "uFCC9", "uFCCA",
         "uFCCB", "uFCCC", "uFCCD", "uFCCE", "uFCCF", "uFCD0", "uFCD1", "uFCD2", "uFCD3", "uFCD4", "uFCD5",
         "uFCD6", "uFCD7", "uFCD8", "uFCD9", "uFCDA", "uFCDB", "uFCDC", "uFCDD", "uFCDE", "uFCDF", "uFCE0",
         "uFCE1", "uFCE2", "uFCE3", "uFCE4", "uFCE5", "uFCE6", "uFCE7", "uFCE8", "uFCE9", "uFCEA", "uFCEB",
         "uFCEC", "uFCED", "uFCEE", "uFCEF", "uFCF0", "uFCF1", "uFCF2", "uFCF3", "uFCF4", "uFCF5", "uFCF6",
         "uFCF7", "uFCF8", "uFCF9", "uFCFA", "uFCFB", "uFCFC", "uFCFD", "uFCFE", "uFCFF", "uFD00", "uFD01",
         "uFD02", "uFD03", "uFD04", "uFD05", "uFD06", "uFD07", "uFD08", "uFD09", "uFD0A", "uFD0B", "uFD0C",
         "uFD0D", "uFD0E", "uFD0F", "uFD10", "uFD11", "uFD12", "uFD13", "uFD14", "uFD15", "uFD16", "uFD17",
         "uFD18", "uFD19", "uFD1A", "uFD1B", "uFD1C", "uFD1D", "uFD1E", "uFD1F", "uFD20", "uFD21", "uFD22",
         "uFD23", "uFD24", "uFD25", "uFD26", "uFD27", "uFD28", "uFD29", "uFD2A", "uFD2B", "uFD2C", "uFD2D",
         "uFD2E", "uFD2F", "uFD30", "uFD31", "uFD32", "uFD33", "uFD34", "uFD35", "uFD36", "uFD37", "uFD38",
         "uFD39", "uFD3A", "uFD3B", "uFD3C", "uFD3D", "uFD50", "uFD51", "uFD52", "uFD53", "uFD54", "uFD55",
         "uFD56", "uFD57", "uFD58", "uFD59", "uFD5A", "uFD5B", "uFD5C", "uFD5D", "uFD5E", "uFD5F", "uFD60",
         "uFD61", "uFD62", "uFD63", "uFD64", "uFD65", "uFD66", "uFD67", "uFD68", "uFD69", "uFD6A", "uFD6B",
         "uFD6C", "uFD6D", "uFD6E", "uFD6F", "uFD70", "uFD71", "uFD72", "uFD73", "uFD74", "uFD75", "uFD76",
         "uFD77", "uFD78", "uFD79", "uFD7A", "uFD7B", "uFD7C", "uFD7D", "uFD7E", "uFD7F", "uFD80", "uFD81",
         "uFD82", "uFD83", "uFD84", "uFD85", "uFD86", "uFD87", "uFD88", "uFD89", "uFD8A", "uFD8B", "uFD8C",
         "uFD8D", "uFD8E", "uFD8F", "uFD92", "uFD93", "uFD94", "uFD95", "uFD96", "uFD97", "uFD98", "uFD99",
         "uFD9A", "uFD9B", "uFD9C", "uFD9D", "uFD9E", "uFD9F", "uFDA0", "uFDA1", "uFDA2", "uFDA3", "uFDA4",
         "uFDA5", "uFDA6", "uFDA7", "uFDA8", "uFDA9", "uFDAA", "uFDAB", "uFDAC", "uFDAD", "uFDAE", "uFDAF",
         "uFDB0", "uFDB1", "uFDB2", "uFDB3", "uFDB4", "uFDB5", "uFDB6", "uFDB7", "uFDB8", "uFDB9", "uFDBA",
         "uFDBB", "uFDBC", "uFDBD", "uFDBE", "uFDBF", "uFDC0", "uFDC1", "uFDC2", "uFDC3", "uFDC4", "uFDC5",
         "uFDC6", "uFDC7", "uFDF0", "uFDF1", "uFDF2", "uFDF3", "uFDF4", "uFDF5", "uFDF6", "uFDF7", "uFDF8",
         "uFDF9", "uFDFA", "uFDFB", "uFDFC", "uFE10", "uFE11", "uFE12", "uFE13", "uFE14", "uFE15", "uFE16",
         "uFE17", "uFE18", "uFE19", "uFE30", "uFE31", "uFE32", "uFE33", "uFE34", "uFE35", "uFE36", "uFE37",
         "uFE38", "uFE39", "uFE3A", "uFE3B", "uFE3C", "uFE3D", "uFE3E", "uFE3F", "uFE40", "uFE41", "uFE42",
         "uFE43", "uFE44", "uFE47", "uFE48", "uFE49", "uFE4A", "uFE4B", "uFE4C", "uFE4D", "uFE4E", "uFE4F",
         "uFE50", "uFE51", "uFE52", "uFE54", "uFE55", "uFE56", "uFE57", "uFE58", "uFE59", "uFE5A", "uFE5B",
         "uFE5C", "uFE5D", "uFE5E", "uFE5F", "uFE60", "uFE61", "uFE62", "uFE63", "uFE64", "uFE65", "uFE66",
         "uFE68", "uFE69", "uFE6A", "uFE6B", "uFE70", "uFE71", "uFE72", "uFE74", "uFE76", "uFE77", "uFE78",
         "uFE79", "uFE7A", "uFE7B", "uFE7C", "uFE7D", "uFE7E", "uFE7F", "uFE80", "uFE81", "uFE82", "uFE83",
         "uFE84", "uFE85", "uFE86", "uFE87", "uFE88", "uFE89", "uFE8A", "uFE8B", "uFE8C", "uFE8D", "uFE8E",
         "uFE8F", "uFE90", "uFE91", "uFE92", "uFE93", "uFE94", "uFE95", "uFE96", "uFE97", "uFE98", "uFE99",
         "uFE9A", "uFE9B", "uFE9C", "uFE9D", "uFE9E", "uFE9F", "uFEA0", "uFEA1", "uFEA2", "uFEA3", "uFEA4",
         "uFEA5", "uFEA6", "uFEA7", "uFEA8", "uFEA9", "uFEAA", "uFEAB", "uFEAC", "uFEAD", "uFEAE", "uFEAF",
         "uFEB0", "uFEB1", "uFEB2", "uFEB3", "uFEB4", "uFEB5", "uFEB6", "uFEB7", "uFEB8", "uFEB9", "uFEBA",
         "uFEBB", "uFEBC", "uFEBD", "uFEBE", "uFEBF", "uFEC0", "uFEC1", "uFEC2", "uFEC3", "uFEC4", "uFEC5",
         "uFEC6", "uFEC7", "uFEC8", "uFEC9", "uFECA", "uFECB", "uFECC", "uFECD", "uFECE", "uFECF", "uFED0",
         "uFED1", "uFED2", "uFED3", "uFED4", "uFED5", "uFED6", "uFED7", "uFED8", "uFED9", "uFEDA", "uFEDB",
         "uFEDC", "uFEDD", "uFEDE", "uFEDF", "uFEE0", "uFEE1", "uFEE2", "uFEE3", "uFEE4", "uFEE5", "uFEE6",
         "uFEE7", "uFEE8", "uFEE9", "uFEEA", "uFEEB", "uFEEC", "uFEED", "uFEEE", "uFEEF", "uFEF0", "uFEF1",
         "uFEF2", "uFEF3", "uFEF4", "uFEF5", "uFEF6", "uFEF7", "uFEF8", "uFEF9", "uFEFA", "uFEFB", "uFEFC",
         "uFF01", "uFF02", "uFF03", "uFF04", "uFF05", "uFF06", "uFF07", "uFF08", "uFF09", "uFF0A", "uFF0B",
         "uFF0C", "uFF0D", "uFF0E", "uFF0F", "uFF10", "uFF11", "uFF12", "uFF13", "uFF14", "uFF15", "uFF16",
         "uFF17", "uFF18", "uFF19", "uFF1A", "uFF1B", "uFF1C", "uFF1D", "uFF1E", "uFF1F", "uFF20", "uFF21",
         "uFF22", "uFF23", "uFF24", "uFF25", "uFF26", "uFF27", "uFF28", "uFF29", "uFF2A", "uFF2B", "uFF2C",
         "uFF2D", "uFF2E", "uFF2F", "uFF30", "uFF31", "uFF32", "uFF33", "uFF34", "uFF35", "uFF36", "uFF37",
         "uFF38", "uFF39", "uFF3A", "uFF3B", "uFF3C", "uFF3D", "uFF3E", "uFF3F", "uFF40", "uFF41", "uFF42",
         "uFF43", "uFF44", "uFF45", "uFF46", "uFF47", "uFF48", "uFF49", "uFF4A", "uFF4B", "uFF4C", "uFF4D",
         "uFF4E", "uFF4F", "uFF50", "uFF51", "uFF52", "uFF53", "uFF54", "uFF55", "uFF56", "uFF57", "uFF58",
         "uFF59", "uFF5A", "uFF5B", "uFF5C", "uFF5D", "uFF5E", "uFF5F", "uFF60", "uFF61", "uFF62", "uFF63",
         "uFF64", "uFF65", "uFF66", "uFF67", "uFF68", "uFF69", "uFF6A", "uFF6B", "uFF6C", "uFF6D", "uFF6E",
         "uFF6F", "uFF70", "uFF71", "uFF72", "uFF73", "uFF74", "uFF75", "uFF76", "uFF77", "uFF78", "uFF79",
         "uFF7A", "uFF7B", "uFF7C", "uFF7D", "uFF7E", "uFF7F", "uFF80", "uFF81", "uFF82", "uFF83", "uFF84",
         "uFF85", "uFF86", "uFF87", "uFF88", "uFF89", "uFF8A", "uFF8B", "uFF8C", "uFF8D", "uFF8E", "uFF8F",
         "uFF90", "uFF91", "uFF92", "uFF93", "uFF94", "uFF95", "uFF96", "uFF97", "uFF98", "uFF99", "uFF9A",
         "uFF9B", "uFF9C", "uFF9D", "uFF9E", "uFF9F", "uFFA0", "uFFA1", "uFFA2", "uFFA3", "uFFA4", "uFFA5",
         "uFFA6", "uFFA7", "uFFA8", "uFFA9", "uFFAA", "uFFAB", "uFFAC", "uFFAD", "uFFAE", "uFFAF", "uFFB0",
         "uFFB1", "uFFB2", "uFFB3", "uFFB4", "uFFB5", "uFFB6", "uFFB7", "uFFB8", "uFFB9", "uFFBA", "uFFBB",
         "uFFBC", "uFFBD", "uFFBE", "uFFC2", "uFFC3", "uFFC4", "uFFC5", "uFFC6", "uFFC7", "uFFCA", "uFFCB",
         "uFFCC", "uFFCD", "uFFCE", "uFFCF", "uFFD2", "uFFD3", "uFFD4", "uFFD5", "uFFD6", "uFFD7", "uFFDA",
         "uFFDB", "uFFDC", "uFFE0", "uFFE1", "uFFE2", "uFFE3", "uFFE4", "uFFE5", "uFFE6", "uFFE8", "uFFE9",
         "uFFEA", "uFFEB", "uFFEC", "uFFED", "uFFEE", "u10781", "u10782", "u10783", "u10784", "u10785",
         "u10787", "u10788", "u10789", "u1078A", "u1078B", "u1078C", "u1078D", "u1078E", "u1078F", "u10790",
         "u10791", "u10792", "u10793", "u10794", "u10795", "u10796", "u10797", "u10798", "u10799", "u1079A",
         "u1079B", "u1079C", "u1079D", "u1079E", "u1079F", "u107A0", "u107A1", "u107A2", "u107A3", "u107A4",
         "u107A5", "u107A6", "u107A7", "u107A8", "u107A9", "u107AA", "u107AB", "u107AC", "u107AD", "u107AE",
         "u107AF", "u107B0", "u107B2", "u107B3", "u107B4", "u107B5", "u107B6", "u107B7", "u107B8", "u107B9",
         "u107BA", "u1109A", "u1109C", "u110AB", "u1112E", "u1112F", "u1134B", "u1134C", "u114BB", "u114BC",
         "u114BE", "u115BA", "u115BB", "u11938", "u1D15E", "u1D15F", "u1D160", "u1D161", "u1D162", "u1D163",
         "u1D164", "u1D1BB", "u1D1BC", "u1D1BD", "u1D1BE", "u1D1BF", "u1D1C0", "u1D400", "u1D401", "u1D402",
         "u1D403", "u1D404", "u1D405", "u1D406", "u1D407", "u1D408", "u1D409", "u1D40A", "u1D40B", "u1D40C",
         "u1D40D", "u1D40E", "u1D40F", "u1D410", "u1D411", "u1D412", "u1D413", "u1D414", "u1D415", "u1D416",
         "u1D417", "u1D418", "u1D419", "u1D41A", "u1D41B", "u1D41C", "u1D41D", "u1D41E", "u1D41F", "u1D420",
         "u1D421", "u1D422", "u1D423", "u1D424", "u1D425", "u1D426", "u1D427", "u1D428", "u1D429", "u1D42A",
         "u1D42B", "u1D42C", "u1D42D", "u1D42E", "u1D42F", "u1D430", "u1D431", "u1D432", "u1D433", "u1D434",
         "u1D435", "u1D436", "u1D437", "u1D438", "u1D439", "u1D43A", "u1D43B", "u1D43C", "u1D43D", "u1D43E",
         "u1D43F", "u1D440", "u1D441", "u1D442", "u1D443", "u1D444", "u1D445", "u1D446", "u1D447", "u1D448",
         "u1D449", "u1D44A", "u1D44B", "u1D44C", "u1D44D", "u1D44E", "u1D44F", "u1D450", "u1D451", "u1D452",
         "u1D453", "u1D454", "u1D456", "u1D457", "u1D458", "u1D459", "u1D45A", "u1D45B", "u1D45C", "u1D45D",
         "u1D45E", "u1D45F", "u1D460", "u1D461", "u1D462", "u1D463", "u1D464", "u1D465", "u1D466", "u1D467",
         "u1D468", "u1D469", "u1D46A", "u1D46B", "u1D46C", "u1D46D", "u1D46E", "u1D46F", "u1D470", "u1D471",
         "u1D472", "u1D473", "u1D474", "u1D475", "u1D476", "u1D477", "u1D478", "u1D479", "u1D47A", "u1D47B",
         "u1D47C", "u1D47D", "u1D47E", "u1D47F", "u1D480", "u1D481", "u1D482", "u1D483", "u1D484", "u1D485",
         "u1D486", "u1D487", "u1D488", "u1D489", "u1D48A", "u1D48B", "u1D48C", "u1D48D", "u1D48E", "u1D48F",
         "u1D490", "u1D491", "u1D492", "u1D493", "u1D494", "u1D495", "u1D496", "u1D497", "u1D498", "u1D499",
         "u1D49A", "u1D49B", "u1D49C", "u1D49E", "u1D49F", "u1D4A2", "u1D4A5", "u1D4A6", "u1D4A9", "u1D4AA",
         "u1D4AB", "u1D4AC", "u1D4AE", "u1D4AF", "u1D4B0", "u1D4B1", "u1D4B2", "u1D4B3", "u1D4B4", "u1D4B5",
         "u1D4B6", "u1D4B7", "u1D4B8", "u1D4B9", "u1D4BB", "u1D4BD", "u1D4BE", "u1D4BF", "u1D4C0", "u1D4C1",
         "u1D4C2", "u1D4C3", "u1D4C5", "u1D4C6", "u1D4C7", "u1D4C8", "u1D4C9", "u1D4CA", "u1D4CB", "u1D4CC",
         "u1D4CD", "u1D4CE", "u1D4CF", "u1D4D0", "u1D4D1", "u1D4D2", "u1D4D3", "u1D4D4", "u1D4D5", "u1D4D6",
         "u1D4D7", "u1D4D8", "u1D4D9", "u1D4DA", "u1D4DB", "u1D4DC", "u1D4DD", "u1D4DE", "u1D4DF", "u1D4E0",
         "u1D4E1", "u1D4E2", "u1D4E3", "u1D4E4", "u1D4E5", "u1D4E6", "u1D4E7", "u1D4E8", "u1D4E9", "u1D4EA",
         "u1D4EB", "u1D4EC", "u1D4ED", "u1D4EE", "u1D4EF", "u1D4F0", "u1D4F1", "u1D4F2", "u1D4F3", "u1D4F4",
         "u1D4F5", "u1D4F6", "u1D4F7", "u1D4F8", "u1D4F9", "u1D4FA", "u1D4FB", "u1D4FC", "u1D4FD", "u1D4FE",
         "u1D4FF", "u1D500", "u1D501", "u1D502", "u1D503", "u1D504", "u1D505", "u1D507", "u1D508", "u1D509",
         "u1D50A", "u1D50D", "u1D50E", "u1D50F", "u1D510", "u1D511", "u1D512", "u1D513", "u1D514", "u1D516",
         "u1D517", "u1D518", "u1D519", "u1D51A", "u1D51B", "u1D51C", "u1D51E", "u1D51F", "u1D520", "u1D521",
         "u1D522", "u1D523", "u1D524", "u1D525", "u1D526", "u1D527", "u1D528", "u1D529", "u1D52A", "u1D52B",
         "u1D52C", "u1D52D", "u1D52E", "u1D52F", "u1D530", "u1D531", "u1D532", "u1D533", "u1D534", "u1D535",
         "u1D536", "u1D537", "u1D538", "u1D539", "u1D53B", "u1D53C", "u1D53D", "u1D53E", "u1D540", "u1D541",
         "u1D542", "u1D543", "u1D544", "u1D546", "u1D54A", "u1D54B", "u1D54C", "u1D54D", "u1D54E", "u1D54F",
         "u1D550", "u1D552", "u1D553", "u1D554", "u1D555", "u1D556", "u1D557", "u1D558", "u1D559", "u1D55A",
         "u1D55B", "u1D55C", "u1D55D", "u1D55E", "u1D55F", "u1D560", "u1D561", "u1D562", "u1D563", "u1D564",
         "u1D565", "u1D566", "u1D567", "u1D568", "u1D569", "u1D56A", "u1D56B", "u1D56C", "u1D56D", "u1D56E",
         "u1D56F", "u1D570", "u1D571", "u1D572", "u1D573", "u1D574", "u1D575", "u1D576", "u1D577", "u1D578",
         "u1D579", "u1D57A", "u1D57B", "u1D57C", "u1D57D", "u1D57E", "u1D57F", "u1D580", "u1D581", "u1D582",
         "u1D583", "u1D584", "u1D585", "u1D586", "u1D587", "u1D588", "u1D589", "u1D58A", "u1D58B", "u1D58C",
         "u1D58D", "u1D58E", "u1D58F", "u1D590", "u1D591", "u1D592", "u1D593", "u1D594", "u1D595", "u1D596",
         "u1D597", "u1D598", "u1D599", "u1D59A", "u1D59B", "u1D59C", "u1D59D", "u1D59E", "u1D59F", "u1D5A0",
         "u1D5A1", "u1D5A2", "u1D5A3", "u1D5A4", "u1D5A5", "u1D5A6", "u1D5A7", "u1D5A8", "u1D5A9", "u1D5AA",
         "u1D5AB", "u1D5AC", "u1D5AD", "u1D5AE", "u1D5AF", "u1D5B0", "u1D5B1", "u1D5B2", "u1D5B3", "u1D5B4",
         "u1D5B5", "u1D5B6", "u1D5B7", "u1D5B8", "u1D5B9", "u1D5BA", "u1D5BB", "u1D5BC", "u1D5BD", "u1D5BE",
         "u1D5BF", "u1D5C0", "u1D5C1", "u1D5C2", "u1D5C3", "u1D5C4", "u1D5C5", "u1D5C6", "u1D5C7", "u1D5C8",
         "u1D5C9", "u1D5CA", "u1D5CB", "u1D5CC", "u1D5CD", "u1D5CE", "u1D5CF", "u1D5D0", "u1D5D1", "u1D5D2",
         "u1D5D3", "u1D5D4", "u1D5D5", "u1D5D6", "u1D5D7", "u1D5D8", "u1D5D9", "u1D5DA", "u1D5DB", "u1D5DC",
         "u1D5DD", "u1D5DE", "u1D5DF", "u1D5E0", "u1D5E1", "u1D5E2", "u1D5E3", "u1D5E4", "u1D5E5", "u1D5E6",
         "u1D5E7", "u1D5E8", "u1D5E9", "u1D5EA", "u1D5EB", "u1D5EC", "u1D5ED", "u1D5EE", "u1D5EF", "u1D5F0",
         "u1D5F1", "u1D5F2", "u1D5F3", "u1D5F4", "u1D5F5", "u1D5F6", "u1D5F7", "u1D5F8", "u1D5F9", "u1D5FA",
         "u1D5FB", "u1D5FC", "u1D5FD", "u1D5FE", "u1D5FF", "u1D600", "u1D601", "u1D602", "u1D603", "u1D604",
         "u1D605", "u1D606", "u1D607", "u1D608", "u1D609", "u1D60A", "u1D60B", "u1D60C", "u1D60D", "u1D60E",
         "u1D60F", "u1D610", "u1D611", "u1D612", "u1D613", "u1D614", "u1D615", "u1D616", "u1D617", "u1D618",
         "u1D619", "u1D61A", "u1D61B", "u1D61C", "u1D61D", "u1D61E", "u1D61F", "u1D620", "u1D621", "u1D622",
         "u1D623", "u1D624", "u1D625", "u1D626", "u1D627", "u1D628", "u1D629", "u1D62A", "u1D62B", "u1D62C",
         "u1D62D", "u1D62E", "u1D62F", "u1D630", "u1D631", "u1D632", "u1D633", "u1D634", "u1D635", "u1D636",
         "u1D637", "u1D638", "u1D639", "u1D63A", "u1D63B", "u1D63C", "u1D63D", "u1D63E", "u1D63F", "u1D640",
         "u1D641", "u1D642", "u1D643", "u1D644", "u1D645", "u1D646", "u1D647", "u1D648", "u1D649", "u1D64A",
         "u1D64B", "u1D64C", "u1D64D", "u1D64E", "u1D64F", "u1D650", "u1D651", "u1D652", "u1D653", "u1D654",
         "u1D655", "u1D656", "u1D657", "u1D658", "u1D659", "u1D65A", "u1D65B", "u1D65C", "u1D65D", "u1D65E",
         "u1D65F", "u1D660", "u1D661", "u1D662", "u1D663", "u1D664", "u1D665", "u1D666", "u1D667", "u1D668",
         "u1D669", "u1D66A", "u1D66B", "u1D66C", "u1D66D", "u1D66E", "u1D66F", "u1D670", "u1D671", "u1D672",
         "u1D673", "u1D674", "u1D675", "u1D676", "u1D677", "u1D678", "u1D679", "u1D67A", "u1D67B", "u1D67C",
         "u1D67D", "u1D67E", "u1D67F", "u1D680", "u1D681", "u1D682", "u1D683", "u1D684", "u1D685", "u1D686",
         "u1D687", "u1D688", "u1D689", "u1D68A", "u1D68B", "u1D68C", "u1D68D", "u1D68E", "u1D68F", "u1D690",
         "u1D691", "u1D692", "u1D693", "u1D694", "u1D695", "u1D696", "u1D697", "u1D698", "u1D699", "u1D69A",
         "u1D69B", "u1D69C", "u1D69D", "u1D69E", "u1D69F", "u1D6A0", "u1D6A1", "u1D6A2", "u1D6A3", "u1D6A4",
         "u1D6A5", "u1D6A8", "u1D6A9", "u1D6AA", "u1D6AB", "u1D6AC", "u1D6AD", "u1D6AE", "u1D6AF", "u1D6B0",
         "u1D6B1", "u1D6B2", "u1D6B3", "u1D6B4", "u1D6B5", "u1D6B6", "u1D6B7", "u1D6B8", "u1D6B9", "u1D6BA",
         "u1D6BB", "u1D6BC", "u1D6BD", "u1D6BE", "u1D6BF", "u1D6C0", "u1D6C1", "u1D6C2", "u1D6C3", "u1D6C4",
         "u1D6C5", "u1D6C6", "u1D6C7", "u1D6C8", "u1D6C9", "u1D6CA", "u1D6CB", "u1D6CC", "u1D6CD", "u1D6CE",
         "u1D6CF", "u1D6D0", "u1D6D1", "u1D6D2", "u1D6D3", "u1D6D4", "u1D6D5", "u1D6D6", "u1D6D7", "u1D6D8",
         "u1D6D9", "u1D6DA", "u1D6DB", "u1D6DC", "u1D6DD", "u1D6DE", "u1D6DF", "u1D6E0", "u1D6E1", "u1D6E2",
         "u1D6E3", "u1D6E4", "u1D6E5", "u1D6E6", "u1D6E7", "u1D6E8", "u1D6E9", "u1D6EA", "u1D6EB", "u1D6EC",
         "u1D6ED", "u1D6EE", "u1D6EF", "u1D6F0", "u1D6F1", "u1D6F2", "u1D6F3", "u1D6F4", "u1D6F5", "u1D6F6",
         "u1D6F7", "u1D6F8", "u1D6F9", "u1D6FA", "u1D6FB", "u1D6FC", "u1D6FD", "u1D6FE", "u1D6FF", "u1D700",
         "u1D701", "u1D702", "u1D703", "u1D704", "u1D705", "u1D706", "u1D707", "u1D708", "u1D709", "u1D70A",
         "u1D70B", "u1D70C", "u1D70D", "u1D70E", "u1D70F", "u1D710", "u1D711", "u1D712", "u1D713", "u1D714",
         "u1D715", "u1D716", "u1D717", "u1D718", "u1D719", "u1D71A", "u1D71B", "u1D71C", "u1D71D", "u1D71E",
         "u1D71F", "u1D720", "u1D721", "u1D722", "u1D723", "u1D724", "u1D725", "u1D726", "u1D727", "u1D728",
         "u1D729", "u1D72A", "u1D72B", "u1D72C", "u1D72D", "u1D72E", "u1D72F", "u1D730", "u1D731", "u1D732",
         "u1D733", "u1D734", "u1D735", "u1D736", "u1D737", "u1D738", "u1D739", "u1D73A", "u1D73B", "u1D73C",
         "u1D73D", "u1D73E", "u1D73F", "u1D740", "u1D741", "u1D742", "u1D743", "u1D744", "u1D745", "u1D746",
         "u1D747", "u1D748", "u1D749", "u1D74A", "u1D74B", "u1D74C", "u1D74D", "u1D74E", "u1D74F", "u1D750",
         "u1D751", "u1D752", "u1D753", "u1D754", "u1D755", "u1D756", "u1D757", "u1D758", "u1D759", "u1D75A",
         "u1D75B", "u1D75C", "u1D75D", "u1D75E", "u1D75F", "u1D760", "u1D761", "u1D762", "u1D763", "u1D764",
         "u1D765", "u1D766", "u1D767", "u1D768", "u1D769", "u1D76A", "u1D76B", "u1D76C", "u1D76D", "u1D76E",
         "u1D76F", "u1D770", "u1D771", "u1D772", "u1D773", "u1D774", "u1D775", "u1D776", "u1D777", "u1D778",
         "u1D779", "u1D77A", "u1D77B", "u1D77C", "u1D77D", "u1D77E", "u1D77F", "u1D780", "u1D781", "u1D782",
         "u1D783", "u1D784", "u1D785", "u1D786", "u1D787", "u1D788", "u1D789", "u1D78A", "u1D78B", "u1D78C",
         "u1D78D", "u1D78E", "u1D78F", "u1D790", "u1D791", "u1D792", "u1D793", "u1D794", "u1D795", "u1D796",
         "u1D797", "u1D798", "u1D799", "u1D79A", "u1D79B", "u1D79C", "u1D79D", "u1D79E", "u1D79F", "u1D7A0",
         "u1D7A1", "u1D7A2", "u1D7A3", "u1D7A4", "u1D7A5", "u1D7A6", "u1D7A7", "u1D7A8", "u1D7A9", "u1D7AA",
         "u1D7AB", "u1D7AC", "u1D7AD", "u1D7AE", "u1D7AF", "u1D7B0", "u1D7B1", "u1D7B2", "u1D7B3", "u1D7B4",
         "u1D7B5", "u1D7B6", "u1D7B7", "u1D7B8", "u1D7B9", "u1D7BA", "u1D7BB", "u1D7BC", "u1D7BD", "u1D7BE",
         "u1D7BF", "u1D7C0", "u1D7C1", "u1D7C2", "u1D7C3", "u1D7C4", "u1D7C5", "u1D7C6", "u1D7C7", "u1D7C8",
         "u1D7C9", "u1D7CA", "u1D7CB", "u1D7CE", "u1D7CF", "u1D7D0", "u1D7D1", "u1D7D2", "u1D7D3", "u1D7D4",
         "u1D7D5", "u1D7D6", "u1D7D7", "u1D7D8", "u1D7D9", "u1D7DA", "u1D7DB", "u1D7DC", "u1D7DD", "u1D7DE",
         "u1D7DF", "u1D7E0", "u1D7E1", "u1D7E2", "u1D7E3", "u1D7E4", "u1D7E5", "u1D7E6", "u1D7E7", "u1D7E8",
         "u1D7E9", "u1D7EA", "u1D7EB", "u1D7EC", "u1D7ED", "u1D7EE", "u1D7EF", "u1D7F0", "u1D7F1", "u1D7F2",
         "u1D7F3", "u1D7F4", "u1D7F5", "u1D7F6", "u1D7F7", "u1D7F8", "u1D7F9", "u1D7FA", "u1D7FB", "u1D7FC",
         "u1D7FD", "u1D7FE", "u1D7FF", "u1EE00", "u1EE01", "u1EE02", "u1EE03", "u1EE05", "u1EE06", "u1EE07",
         "u1EE08", "u1EE09", "u1EE0A", "u1EE0B", "u1EE0C", "u1EE0D", "u1EE0E", "u1EE0F", "u1EE10", "u1EE11",
         "u1EE12", "u1EE13", "u1EE14", "u1EE15", "u1EE16", "u1EE17", "u1EE18", "u1EE19", "u1EE1A", "u1EE1B",
         "u1EE1C", "u1EE1D", "u1EE1E", "u1EE1F", "u1EE21", "u1EE22", "u1EE24", "u1EE27", "u1EE29", "u1EE2A",
         "u1EE2B", "u1EE2C", "u1EE2D", "u1EE2E", "u1EE2F", "u1EE30", "u1EE31", "u1EE32", "u1EE34", "u1EE35",
         "u1EE36", "u1EE37", "u1EE39", "u1EE3B", "u1EE42", "u1EE47", "u1EE49", "u1EE4B", "u1EE4D", "u1EE4E",
         "u1EE4F", "u1EE51", "u1EE52", "u1EE54", "u1EE57", "u1EE59", "u1EE5B", "u1EE5D", "u1EE5F", "u1EE61",
         "u1EE62", "u1EE64", "u1EE67", "u1EE68", "u1EE69", "u1EE6A", "u1EE6C", "u1EE6D", "u1EE6E", "u1EE6F",
         "u1EE70", "u1EE71", "u1EE72", "u1EE74", "u1EE75", "u1EE76", "u1EE77", "u1EE79", "u1EE7A", "u1EE7B",
         "u1EE7C", "u1EE7E", "u1EE80", "u1EE81", "u1EE82", "u1EE83", "u1EE84", "u1EE85", "u1EE86", "u1EE87",
         "u1EE88", "u1EE89", "u1EE8B", "u1EE8C", "u1EE8D", "u1EE8E", "u1EE8F", "u1EE90", "u1EE91", "u1EE92",
         "u1EE93", "u1EE94", "u1EE95", "u1EE96", "u1EE97", "u1EE98", "u1EE99", "u1EE9A", "u1EE9B", "u1EEA1",
         "u1EEA2", "u1EEA3", "u1EEA5", "u1EEA6", "u1EEA7", "u1EEA8", "u1EEA9", "u1EEAB", "u1EEAC", "u1EEAD",
         "u1EEAE", "u1EEAF", "u1EEB0", "u1EEB1", "u1EEB2", "u1EEB3", "u1EEB4", "u1EEB5", "u1EEB6", "u1EEB7",
         "u1EEB8", "u1EEB9", "u1EEBA", "u1EEBB", "u1F100", "u1F101", "u1F102", "u1F103", "u1F104", "u1F105",
         "u1F106", "u1F107", "u1F108", "u1F109", "u1F10A", "u1F110", "u1F111", "u1F112", "u1F113", "u1F114",
         "u1F115", "u1F116", "u1F117", "u1F118", "u1F119", "u1F11A", "u1F11B", "u1F11C", "u1F11D", "u1F11E",
         "u1F11F", "u1F120", "u1F121", "u1F122", "u1F123", "u1F124", "u1F125", "u1F126", "u1F127", "u1F128",
         "u1F129", "u1F12A", "u1F12B", "u1F12C", "u1F12D", "u1F12E", "u1F130", "u1F131", "u1F132", "u1F133",
         "u1F134", "u1F135", "u1F136", "u1F137", "u1F138", "u1F139", "u1F13A", "u1F13B", "u1F13C", "u1F13D",
         "u1F13E", "u1F13F", "u1F140", "u1F141", "u1F142", "u1F143", "u1F144", "u1F145", "u1F146", "u1F147",
         "u1F148", "u1F149", "u1F14A", "u1F14B", "u1F14C", "u1F14D", "u1F14E", "u1F14F", "u1F16A", "u1F16B",
         "u1F16C", "u1F190", "u1F200", "u1F201", "u1F202", "u1F210", "u1F211", "u1F212", "u1F213", "u1F214",
         "u1F215", "u1F216", "u1F217", "u1F218", "u1F219", "u1F21A", "u1F21B", "u1F21C", "u1F21D", "u1F21E",
         "u1F21F", "u1F220", "u1F221", "u1F222", "u1F223", "u1F224", "u1F225", "u1F226", "u1F227", "u1F228",
         "u1F229", "u1F22A", "u1F22B", "u1F22C", "u1F22D", "u1F22E", "u1F22F", "u1F230", "u1F231", "u1F232",
         "u1F233", "u1F234", "u1F235", "u1F236", "u1F237", "u1F238", "u1F239", "u1F23A", "u1F23B", "u1F240",
         "u1F241", "u1F242", "u1F243", "u1F244", "u1F245", "u1F246", "u1F247", "u1F248", "u1F250", "u1F251",
         "u1FBF0", "u1FBF1", "u1FBF2", "u1FBF3", "u1FBF4", "u1FBF5", "u1FBF6", "u1FBF7", "u1FBF8", "u1FBF9",
         "u2F800", "u2F801", "u2F802", "u2F803", "u2F804", "u2F805", "u2F806", "u2F807", "u2F808", "u2F809",
         "u2F80A", "u2F80B", "u2F80C", "u2F80D", "u2F80E", "u2F80F", "u2F810", "u2F811", "u2F812", "u2F813",
         "u2F814", "u2F815", "u2F816", "u2F817", "u2F818", "u2F819", "u2F81A", "u2F81B", "u2F81C", "u2F81D",
         "u2F81E", "u2F81F", "u2F820", "u2F821", "u2F822", "u2F823", "u2F824", "u2F825", "u2F826", "u2F827",
         "u2F828", "u2F829", "u2F82A", "u2F82B", "u2F82C", "u2F82D", "u2F82E", "u2F82F", "u2F830", "u2F831",
         "u2F832", "u2F833", "u2F834", "u2F835", "u2F836", "u2F837", "u2F838", "u2F839", "u2F83A", "u2F83B",
         "u2F83C", "u2F83D", "u2F83E", "u2F83F", "u2F840", "u2F841", "u2F842", "u2F843", "u2F844", "u2F845",
         "u2F846", "u2F847", "u2F848", "u2F849", "u2F84A", "u2F84B", "u2F84C", "u2F84D", "u2F84E", "u2F84F",
         "u2F850", "u2F851", "u2F852", "u2F853", "u2F854", "u2F855", "u2F856", "u2F857", "u2F858", "u2F859",
         "u2F85A", "u2F85B", "u2F85C", "u2F85D", "u2F85E", "u2F85F", "u2F860", "u2F861", "u2F862", "u2F863",
         "u2F864", "u2F865", "u2F866", "u2F867", "u2F868", "u2F869", "u2F86A", "u2F86B", "u2F86C", "u2F86D",
         "u2F86E", "u2F86F", "u2F870", "u2F871", "u2F872", "u2F873", "u2F874", "u2F875", "u2F876", "u2F877",
         "u2F878", "u2F879", "u2F87A", "u2F87B", "u2F87C", "u2F87D", "u2F87E", "u2F87F", "u2F880", "u2F881",
         "u2F882", "u2F883", "u2F884", "u2F885", "u2F886", "u2F887", "u2F888", "u2F889", "u2F88A", "u2F88B",
         "u2F88C", "u2F88D", "u2F88E", "u2F88F", "u2F890", "u2F891", "u2F892", "u2F893", "u2F894", "u2F895",
         "u2F896", "u2F897", "u2F898", "u2F899", "u2F89A", "u2F89B", "u2F89C", "u2F89D", "u2F89E", "u2F89F",
         "u2F8A0", "u2F8A1", "u2F8A2", "u2F8A3", "u2F8A4", "u2F8A5", "u2F8A6", "u2F8A7", "u2F8A8", "u2F8A9",
         "u2F8AA", "u2F8AB", "u2F8AC", "u2F8AD", "u2F8AE", "u2F8AF", "u2F8B0", "u2F8B1", "u2F8B2", "u2F8B3",
         "u2F8B4", "u2F8B5", "u2F8B6", "u2F8B7", "u2F8B8", "u2F8B9", "u2F8BA", "u2F8BB", "u2F8BC", "u2F8BD",
         "u2F8BE", "u2F8BF", "u2F8C0", "u2F8C1", "u2F8C2", "u2F8C3", "u2F8C4", "u2F8C5", "u2F8C6", "u2F8C7",
         "u2F8C8", "u2F8C9", "u2F8CA", "u2F8CB", "u2F8CC", "u2F8CD", "u2F8CE", "u2F8CF", "u2F8D0", "u2F8D1",
         "u2F8D2", "u2F8D3", "u2F8D4", "u2F8D5", "u2F8D6", "u2F8D7", "u2F8D8", "u2F8D9", "u2F8DA", "u2F8DB",
         "u2F8DC", "u2F8DD", "u2F8DE", "u2F8DF", "u2F8E0", "u2F8E1", "u2F8E2", "u2F8E3", "u2F8E4", "u2F8E5",
         "u2F8E6", "u2F8E7", "u2F8E8", "u2F8E9", "u2F8EA", "u2F8EB", "u2F8EC", "u2F8ED", "u2F8EE", "u2F8EF",
         "u2F8F0", "u2F8F1", "u2F8F2", "u2F8F3", "u2F8F4", "u2F8F5", "u2F8F6", "u2F8F7", "u2F8F8", "u2F8F9",
         "u2F8FA", "u2F8FB", "u2F8FC", "u2F8FD", "u2F8FE", "u2F8FF", "u2F900", "u2F901", "u2F902", "u2F903",
         "u2F904", "u2F905", "u2F906", "u2F907", "u2F908", "u2F909", "u2F90A", "u2F90B", "u2F90C", "u2F90D",
         "u2F90E", "u2F90F", "u2F910", "u2F911", "u2F912", "u2F913", "u2F914", "u2F915", "u2F916", "u2F917",
         "u2F918", "u2F919", "u2F91A", "u2F91B", "u2F91C", "u2F91D", "u2F91E", "u2F91F", "u2F920", "u2F921",
         "u2F922", "u2F923", "u2F924", "u2F925", "u2F926", "u2F927", "u2F928", "u2F929", "u2F92A", "u2F92B",
         "u2F92C", "u2F92D", "u2F92E", "u2F92F", "u2F930", "u2F931", "u2F932", "u2F933", "u2F934", "u2F935",
         "u2F936", "u2F937", "u2F938", "u2F939", "u2F93A", "u2F93B", "u2F93C", "u2F93D", "u2F93E", "u2F93F",
         "u2F940", "u2F941", "u2F942", "u2F943", "u2F944", "u2F945", "u2F946", "u2F947", "u2F948", "u2F949",
         "u2F94A", "u2F94B", "u2F94C", "u2F94D", "u2F94E", "u2F94F", "u2F950", "u2F951", "u2F952", "u2F953",
         "u2F954", "u2F955", "u2F956", "u2F957", "u2F958", "u2F959", "u2F95A", "u2F95B", "u2F95C", "u2F95D",
         "u2F95E", "u2F95F", "u2F960", "u2F961", "u2F962", "u2F963", "u2F964", "u2F965", "u2F966", "u2F967",
         "u2F968", "u2F969", "u2F96A", "u2F96B", "u2F96C", "u2F96D", "u2F96E", "u2F96F", "u2F970", "u2F971",
         "u2F972", "u2F973", "u2F974", "u2F975", "u2F976", "u2F977", "u2F978", "u2F979", "u2F97A", "u2F97B",
         "u2F97C", "u2F97D", "u2F97E", "u2F97F", "u2F980", "u2F981", "u2F982", "u2F983", "u2F984", "u2F985",
         "u2F986", "u2F987", "u2F988", "u2F989", "u2F98A", "u2F98B", "u2F98C", "u2F98D", "u2F98E", "u2F98F",
         "u2F990", "u2F991", "u2F992", "u2F993", "u2F994", "u2F995", "u2F996", "u2F997", "u2F998", "u2F999",
         "u2F99A", "u2F99B", "u2F99C", "u2F99D", "u2F99E", "u2F99F", "u2F9A0", "u2F9A1", "u2F9A2", "u2F9A3",
         "u2F9A4", "u2F9A5", "u2F9A6", "u2F9A7", "u2F9A8", "u2F9A9", "u2F9AA", "u2F9AB", "u2F9AC", "u2F9AD",
         "u2F9AE", "u2F9AF", "u2F9B0", "u2F9B1", "u2F9B2", "u2F9B3", "u2F9B4", "u2F9B5", "u2F9B6", "u2F9B7",
         "u2F9B8", "u2F9B9", "u2F9BA", "u2F9BB", "u2F9BC", "u2F9BD", "u2F9BE", "u2F9BF", "u2F9C0", "u2F9C1",
         "u2F9C2", "u2F9C3", "u2F9C4", "u2F9C5", "u2F9C6", "u2F9C7", "u2F9C8", "u2F9C9", "u2F9CA", "u2F9CB",
         "u2F9CC", "u2F9CD", "u2F9CE", "u2F9CF", "u2F9D0", "u2F9D1", "u2F9D2", "u2F9D3", "u2F9D4", "u2F9D5",
         "u2F9D6", "u2F9D7", "u2F9D8", "u2F9D9", "u2F9DA", "u2F9DB", "u2F9DC", "u2F9DD", "u2F9DE", "u2F9DF",
         "u2F9E0", "u2F9E1", "u2F9E2", "u2F9E3", "u2F9E4", "u2F9E5", "u2F9E6", "u2F9E7", "u2F9E8", "u2F9E9",
         "u2F9EA", "u2F9EB", "u2F9EC", "u2F9ED", "u2F9EE", "u2F9EF", "u2F9F0", "u2F9F1", "u2F9F2", "u2F9F3",
         "u2F9F4", "u2F9F5", "u2F9F6", "u2F9F7", "u2F9F8", "u2F9F9", "u2F9FA", "u2F9FB", "u2F9FC", "u2F9FD",
         "u2F9FE", "u2F9FF", "u2FA00", "u2FA01", "u2FA02", "u2FA03", "u2FA04", "u2FA05", "u2FA06", "u2FA07",
         "u2FA08", "u2FA09", "u2FA0A", "u2FA0B", "u2FA0C", "u2FA0D", "u2FA0E", "u2FA0F", "u2FA10", "u2FA11",
         "u2FA12", "u2FA13", "u2FA14", "u2FA15", "u2FA16", "u2FA17", "u2FA18", "u2FA19", "u2FA1A", "u2FA1B",
         "u2FA1C", "u2FA1D"},
     combining |->
        [u0300 |-> 230, u0301 |-> 230, u0302 |-> 230, u0303 |-> 230, u0304 |-> 230, u0305 |-> 230,
         u0306 |-> 230, u0307 |-> 230, u0308 |-> 230, u0309 |-> 230, u030A |-> 230, u030B |-> 230,
         u030C |-> 230, u030D |-> 230, u030E |-> 230, u030F |-> 230, u0310 |-> 230, u0311 |-> 230,
         u0312 |-> 230, u0313 |-> 230, u0314 |-> 230, u0315 |-> 232, u0316 |-> 220, u0317 |-> 220,
         u0318 |-> 220, u0319 |-> 220, u031A |-> 232, u031B |-> 216, u031C |-> 220, u031D |-> 220,
         u031E |-> 220, u031F |-> 220, u0320 |-> 220, u0321 |-> 202, u0322 |-> 202, u0323 |-> 220,
         u0324 |-> 220, u0325 |-> 220, u0326 |-> 220, u0327 |-> 202, u0328 |-> 202, u0329 |-> 220,
         u032A |-> 220, u032B |-> 220, u032C |-> 220, u032D |-> 220, u032E |-> 220, u032F |-> 220,
         u0330 |-> 220, u0331 |-> 220, u0332 |-> 220, u0333 |-> 220, u0334 |-> 1, u0335 |-> 1, u0336 |-> 1,
         u0337 |-> 1, u0338 |-> 1, u0339 |-> 220, u033A |-> 220, u033B |-> 220, u033C |-> 220, u033D |-> 230,
         u033E |-> 230, u033F |-> 230, u0340 |-> 230, u0341 |-> 230, u0342 |-> 230, u0343 |-> 230,
         u0344 |-> 230, u0345 |-> 240, u0346 |-> 230, u0347 |-> 220, u0348 |-> 220, u0349 |-> 220,
         u034A |-> 230, u034B |-> 230, u034C |-> 230, u034D |-> 220, u034E |-> 220, u0350 |-> 230,
         u0351 |-> 230, u0352 |-> 230, u0353 |-> 220, u0354 |-> 220, u0355 |-> 220, u0356 |-> 220,
         u0357 |-> 230, u0358 |-> 232, u0359 |-> 220, u035A |-> 220, u035B |-> 230, u035C |-> 233,
         u035D |-> 234, u035E |-> 234, u035F |-> 233, u0360 |-> 234, u0361 |-> 234, u0362 |-> 233,
         u0363 |-> 230, u0364 |-> 230, u0365 |-> 230, u0366 |-> 230, u0367 |-> 230, u0368 |-> 230,
         u0369 |-> 230, u036A |-> 230, u036B |-> 230, u036C |-> 230, u036D |-> 230, u036E |-> 230,
         u036F |-> 230, u0483 |-> 230, u0484 |-> 230, u0485 |-> 230, u0486 |-> 230, u0487 |-> 230,
         u0591 |-> 220, u0592 |-> 230, u0593 |-> 230, u0594 |-> 230, u0595 |-> 230, u0596 |-> 220,
         u0597 |-> 230, u0598 |-> 230, u0599 |-> 230, u059A |-> 222, u059B |-> 220, u059C |-> 230,
         u059D |-> 230, u059E |-> 230, u059F |-> 230, u05A0 |-> 230, u05A1 |-> 230, u05A2 |-> 220,
         u05A3 |-> 220, u05A4 |-> 220, u05A5 |-> 220, u05A6 |-> 220, u05A7 |-> 220, u05A8 |-> 230,
         u05A9 |-> 230, u05AA |-> 220, u05AB |-> 230, u05AC |-> 230, u05AD |-> 222, u05AE |-> 228,
         u05AF |-> 230, u05B0 |-> 10, u05B1 |-> 11, u05B2 |-> 12, u05B3 |-> 13, u05B4 |-> 14, u05B5 |-> 15,
         u05B6 |-> 16, u05B7 |-> 17, u05B8 |-> 18, u05B9 |-> 19, u05BA |-> 19, u05BB |-> 20, u05BC |-> 21,
         u05BD |-> 22, u05BF |-> 23, u05C1 |-> 24, u05C2 |-> 25, u05C4 |-> 230, u05C5 |-> 220, u05C7 |-> 18,
         u0610 |-> 230, u0611 |-> 230, u0612 |-> 230, u0613 |-> 230, u0614 |-> 230, u0615 |-> 230,
         u0616 |-> 230, u0617 |-> 230, u0618 |-> 30, u0619 |-> 31, u061A |-> 32, u064B |-> 27, u064C |-> 28,
         u064D |-> 29, u064E |-> 30, u064F |-> 31, u0650 |-> 32, u0651 |-> 33, u0652 |-> 34, u0653 |-> 230,
         u0654 |-> 230, u0655 |-> 220, u0656 |-> 220, u0657 |-> 230, u0658 |-> 230, u0659 |-> 230,
         u065A |-> 230, u065B |-> 230, u065C |-> 220, u065D |-> 230, u065E |-> 230, u065F |-> 220,
         u0670 |-> 35, u06D6 |-> 230, u06D7 |-> 230, u06D8 |-> 230, u06D9 |-> 230, u06DA |-> 230,
         u06DB |-> 230, u06DC |-> 230, u06DF |-> 230, u06E0 |-> 230, u06E1 |-> 230, u06E2 |-> 230,
         u06E3 |-> 220, u06E4 |-> 230, u06E7 |-> 230, u06E8 |-> 230, u06EA |-> 220, u06EB |-> 230,
         u06EC |-> 230, u06ED |-> 220, u0711 |-> 36, u0730 |-> 230, u0731 |-> 220, u0732 |-> 230,
         u0733 |-> 230, u0734 |-> 220, u0735 |-> 230, u0736 |-> 230, u0737 |-> 220, u0738 |-> 220,
         u0739 |-> 220, u073A |-> 230, u073B |-> 220, u073C |-> 220, u073D |-> 230, u073E |-> 220,
         u073F |-> 230, u0740 |-> 230, u0741 |-> 230, u0742 |-> 220, u0743 |-> 230, u0744 |-> 220,
         u0745 |-> 230, u0746 |-> 220, u0747 |-> 230, u0748 |-> 220, u0749 |-> 230, u074A |-> 230,
         u07EB |-> 230, u07EC |-> 230, u07ED |-> 230, u07EE |-> 230, u07EF |-> 230, u07F0 |-> 230,
         u07F1 |-> 230, u07F2 |-> 220, u07F3 |-> 230, u07FD |-> 220, u0816 |-> 230, u0817 |-> 230,
         u0818 |-> 230, u0819 |-> 230, u081B |-> 230, u081C |-> 230, u081D |-> 230, u081E |-> 230,
         u081F |-> 230, u0820 |-> 230, u0821 |-> 230, u0822 |-> 230, u0823 |-> 230, u0825 |-> 230,
         u0826 |-> 230, u0827 |-> 230, u0829 |-> 230, u082A |-> 230, u082B |-> 230, u082C |-> 230,
         u082D |-> 230, u0859 |-> 220, u085A |-> 220, u085B |-> 220, u0898 |-> 230, u0899 |-> 220,
         u089A |-> 220, u089B |-> 220, u089C |-> 230, u089D |-> 230, u089E |-> 230, u089F |-> 230,
         u08CA |-> 230, u08CB |-> 230, u08CC |-> 230, u08CD |-> 230, u08CE |-> 230, u08CF |-> 220,
         u08D0 |-> 220, u08D1 |-> 220, u08D2 |-> 220, u08D3 |-> 220, u08D4 |-> 230, u08D5 |-> 230,
         u08D6 |-> 230, u08D7 |-> 230, u08D8 |-> 230, u08D9 |-> 230, u08DA |-> 230, u08DB |-> 230,
         u08DC |-> 230, u08DD |-> 230, u08DE |-> 230, u08DF |-> 230, u08E0 |-> 230, u08E1 |-> 230,
         u08E3 |-> 220, u08E4 |-> 230, u08E5 |-> 230, u08E6 |-> 220, u08E7 |-> 230, u08E8 |-> 230,
         u08E9 |-> 220, u08EA |-> 230, u08EB |-> 230, u08EC |-> 230, u08ED |-> 220, u08EE |-> 220,
         u08EF |-> 220, u08F0 |-> 27, u08F1 |-> 28, u08F2 |-> 29, u08F3 |-> 230, u08F4 |-> 230, u08F5 |-> 230,
         u08F6 |-> 220, u08F7 |-> 230, u08F8 |-> 230, u08F9 |-> 220, u08FA |-> 220, u08FB |-> 230,
         u08FC |-> 230, u08FD |-> 230, u08FE |-> 230, u08FF |-> 230, u093C |-> 7, u094D |-> 9, u0951 |-> 230,
         u0952 |-> 220, u0953 |-> 230, u0954 |-> 230, u09BC |-> 7, u09CD |-> 9, u09FE |-> 230, u0A3C |-> 7,
         u0A4D |-> 9, u0ABC |-> 7, u0ACD |-> 9, u0B3C |-> 7, u0B4D |-> 9, u0BCD |-> 9, u0C3C |-> 7,
         u0C4D |-> 9, u0C55 |-> 84, u0C56 |-> 91, u0CBC |-> 7, u0CCD |-> 9, u0D3B |-> 9, u0D3C |-> 9,
         u0D4D |-> 9, u0DCA |-> 9, u0E38 |-> 103, u0E39 |-> 103, u0E3A |-> 9, u0E48 |-> 107, u0E49 |-> 107,
         u0E4A |-> 107, u0E4B |-> 107, u0EB8 |-> 118, u0EB9 |-> 118, u0EBA |-> 9, u0EC8 |-> 122,
         u0EC9 |-> 122, u0ECA |-> 122, u0ECB |-> 122, u0F18 |-> 220, u0F19 |-> 220, u0F35 |-> 220,
         u0F37 |-> 220, u0F39 |-> 216, u0F71 |-> 129, u0F72 |-> 130, u0F74 |-> 132, u0F7A |-> 130,
         u0F7B |-> 130, u0F7C |-> 130, u0F7D |-> 130, u0F80 |-> 130, u0F82 |-> 230, u0F83 |-> 230,
         u0F84 |-> 9, u0F86 |-> 230, u0F87 |-> 230, u0FC6 |-> 220, u1037 |-> 7, u1039 |-> 9, u103A |-> 9,
         u108D |-> 220, u135D |-> 230, u135E |-> 230, u135F |-> 230, u1714 |-> 9, u1715 |-> 9, u1734 |-> 9,
         u17D2 |-> 9, u17DD |-> 230, u18A9 |-> 228, u1939 |-> 222, u193A |-> 230, u193B |-> 220,
         u1A17 |-> 230, u1A18 |-> 220, u1A60 |-> 9, u1A75 |-> 230, u1A76 |-> 230, u1A77 |-> 230,
         u1A78 |-> 230, u1A79 |-> 230, u1A7A |-> 230, u1A7B |-> 230, u1A7C |-> 230, u1A7F |-> 220,
         u1AB0 |-> 230, u1AB1 |-> 230, u1AB2 |-> 230, u1AB3 |-> 230, u1AB4 |-> 230, u1AB5 |-> 220,
         u1AB6 |-> 220, u1AB7 |-> 220, u1AB8 |-> 220, u1AB9 |-> 220, u1ABA |-> 220, u1ABB |-> 230,
         u1ABC |-> 230, u1ABD |-> 220, u1ABF |-> 220, u1AC0 |-> 220, u1AC1 |-> 230, u1AC2 |-> 230,
         u1AC3 |-> 220, u1AC4 |-> 220, u1AC5 |-> 230, u1AC6 |-> 230, u1AC7 |-> 230, u1AC8 |-> 230,
         u1AC9 |-> 230, u1ACA |-> 220, u1ACB |-> 230, u1ACC |-> 230, u1ACD |-> 230, u1ACE |-> 230,
         u1B34 |-> 7, u1B44 |-> 9, u1B6B |-> 230, u1B6C |-> 220, u1B6D |-> 230, u1B6E |-> 230, u1B6F |-> 230,
         u1B70 |-> 230, u1B71 |-> 230, u1B72 |-> 230, u1B73 |-> 230, u1BAA |-> 9, u1BAB |-> 9, u1BE6 |-> 7,
         u1BF2 |-> 9, u1BF3 |-> 9, u1C37 |-> 7, u1CD0 |-> 230, u1CD1 |-> 230, u1CD2 |-> 230, u1CD4 |-> 1,
         u1CD5 |-> 220, u1CD6 |-> 220, u1CD7 |-> 220, u1CD8 |-> 220, u1CD9 |-> 220, u1CDA |-> 230,
         u1CDB |-> 230, u1CDC |-> 220, u1CDD |-> 220, u1CDE |-> 220, u1CDF |-> 220, u1CE0 |-> 230,
         u1CE2 |-> 1, u1CE3 |-> 1, u1CE4 |-> 1, u1CE5 |-> 1, u1CE6 |-> 1, u1CE7 |-> 1, u1CE8 |-> 1,
         u1CED |-> 220, u1CF4 |-> 230, u1CF8 |-> 230, u1CF9 |-> 230, u1DC0 |-> 230, u1DC1 |-> 230,
         u1DC2 |-> 220, u1DC3 |-> 230, u1DC4 |-> 230, u1DC5 |-> 230, u1DC6 |-> 230, u1DC7 |-> 230,
         u1DC8 |-> 230, u1DC9 |-> 230, u1DCA |-> 220, u1DCB |-> 230, u1DCC |-> 230, u1DCD |-> 234,
         u1DCE |-> 214, u1DCF |-> 220, u1DD0 |-> 202, u1DD1 |-> 230, u1DD2 |-> 230, u1DD3 |-> 230,
         u1DD4 |-> 230, u1DD5 |-> 230, u1DD6 |-> 230, u1DD7 |-> 230, u1DD8 |-> 230, u1DD9 |-> 230,
         u1DDA |-> 230, u1DDB |-> 230, u1DDC |-> 230, u1DDD |-> 230, u1DDE |-> 230, u1DDF |-> 230,
         u1DE0 |-> 230, u1DE1 |-> 230, u1DE2 |-> 230, u1DE3 |-> 230, u1DE4 |-> 230, u1DE5 |-> 230,
         u1DE6 |-> 230, u1DE7 |-> 230, u1DE8 |-> 230, u1DE9 |-> 230, u1DEA |-> 230, u1DEB |-> 230,
         u1DEC |-> 230, u1DED |-> 230, u1DEE |-> 230, u1DEF |-> 230, u1DF0 |-> 230, u1DF1 |-> 230,
         u1DF2 |-> 230, u1DF3 |-> 230, u1DF4 |-> 230, u1DF5 |-> 230, u1DF6 |-> 232, u1DF7 |-> 228,
         u1DF8 |-> 228, u1DF9 |-> 220, u1DFA |-> 218, u1DFB |-> 230, u1DFC |-> 233, u1DFD |-> 220,
         u1DFE |-> 230, u1DFF |-> 220, u20D0 |-> 230, u20D1 |-> 230, u20D2 |-> 1, u20D3 |-> 1, u20D4 |-> 230,
         u20D5 |-> 230, u20D6 |-> 230, u20D7 |-> 230, u20D8 |-> 1, u20D9 |-> 1, u20DA |-> 1, u20DB |-> 230,
         u20DC |-> 230, u20E1 |-> 230, u20E5 |-> 1, u20E6 |-> 1, u20E7 |-> 230, u20E8 |-> 220, u20E9 |-> 230,
         u20EA |-> 1, u20EB |-> 1, u20EC |-> 220, u20ED |-> 220, u20EE |-> 220, u20EF |-> 220, u20F0 |-> 230,
         u2CEF |-> 230, u2CF0 |-> 230, u2CF1 |-> 230, u2D7F |-> 9, u2DE0 |-> 230, u2DE1 |-> 230,
         u2DE2 |-> 230, u2DE3 |-> 230, u2DE4 |-> 230, u2DE5 |-> 230, u2DE6 |-> 230, u2DE7 |-> 230,
         u2DE8 |-> 230, u2DE9 |-> 230, u2DEA |-> 230, u2DEB |-> 230, u2DEC |-> 230, u2DED |-> 230,
         u2DEE |-> 230, u2DEF |-> 230, u2DF0 |-> 230, u2DF1 |-> 230, u2DF2 |-> 230, u2DF3 |-> 230,
         u2DF4 |-> 230, u2DF5 |-> 230, u2DF6 |-> 230, u2DF7 |-> 230, u2DF8 |-> 230, u2DF9 |-> 230,
         u2DFA |-> 230, u2DFB |-> 230, u2DFC |-> 230, u2DFD |-> 230, u2DFE |-> 230, u2DFF |-> 230,
         u302A |-> 218, u302B |-> 228, u302C |-> 232, u302D |-> 222, u302E |-> 224, u302F |-> 224,
         u3099 |-> 8, u309A |-> 8, uA66F |-> 230, uA674 |-> 230, uA675 |-> 230, uA676 |-> 230, uA677 |-> 230,
         uA678 |-> 230, uA679 |-> 230, uA67A |-> 230, uA67B |-> 230, uA67C |-> 230, uA67D |-> 230,
         uA69E |-> 230, uA69F |-> 230, uA6F0 |-> 230, uA6F1 |-> 230, uA806 |-> 9, uA82C |-> 9, uA8C4 |-> 9,
         uA8E0 |-> 230, uA8E1 |-> 230, uA8E2 |-> 230, uA8E3 |-> 230, uA8E4 |-> 230, uA8E5 |-> 230,
         uA8E6 |-> 230, uA8E7 |-> 230, uA8E8 |-> 230, uA8E9 |-> 230, uA8EA |-> 230, uA8EB |-> 230,
         uA8EC |-> 230, uA8ED |-> 230, uA8EE |-> 230, uA8EF |-> 230, uA8F0 |-> 230, uA8F1 |-> 230,
         uA92B |-> 220, uA92C |-> 220, uA92D |-> 220, uA953 |-> 9, uA9B3 |-> 7, uA9C0 |-> 9, uAAB0 |-> 230,
         uAAB2 |-> 230, uAAB3 |-> 230, uAAB4 |-> 220, uAAB7 |-> 230, uAAB8 |-> 230, uAABE |-> 230,
         uAABF |-> 230, uAAC1 |-> 230, uAAF6 |-> 9, uABED |-> 9, uFB1E |-> 26, uFE20 |-> 230, uFE21 |-> 230,
         uFE22 |-> 230, uFE23 |-> 230, uFE24 |-> 230, uFE25 |-> 230, uFE26 |-> 230, uFE27 |-> 220,
         uFE28 |-> 220, uFE29 |-> 220, uFE2A |-> 220, uFE2B |-> 220, uFE2C |-> 220, uFE2D |-> 220,
         uFE2E |-> 230, uFE2F |-> 230, u101FD |-> 220, u102E0 |-> 220, u10376 |-> 230, u10377 |-> 230,
         u10378 |-> 230, u10379 |-> 230, u1037A |-> 230, u10A0D |-> 220, u10A0F |-> 230, u10A38 |-> 230,
         u10A39 |-> 1, u10A3A |-> 220, u10A3F |-> 9, u10AE5 |-> 230, u10AE6 |-> 220, u10D24 |-> 230,
         u10D25 |-> 230, u10D26 |-> 230, u10D27 |-> 230, u10EAB |-> 230, u10EAC |-> 230, u10F46 |-> 220,
         u10F47 |-> 220, u10F48 |-> 230, u10F49 |-> 230, u10F4A |-> 230, u10F4B |-> 220, u10F4C |-> 230,
         u10F4D |-> 220, u10F4E |-> 220, u10F4F |-> 220, u10F50 |-> 220, u10F82 |-> 230, u10F83 |-> 220,
         u10F84 |-> 230, u10F85 |-> 220, u11046 |-> 9, u11070 |-> 9, u1107F |-> 9, u110B9 |-> 9, u110BA |-> 7,
         u11100 |-> 230, u11101 |-> 230, u11102 |-> 230, u11133 |-> 9, u11134 |-> 9, u11173 |-> 7,
         u111C0 |-> 9, u111CA |-> 7, u11235 |-> 9, u11236 |-> 7, u112E9 |-> 7, u112EA |-> 9, u1133B |-> 7,
         u1133C |-> 7, u1134D |-> 9, u11366 |-> 230, u11367 |-> 230, u11368 |-> 230, u11369 |-> 230,
         u1136A |-> 230, u1136B |-> 230, u1136C |-> 230, u11370 |-> 230, u11371 |-> 230, u11372 |-> 230,
         u11373 |-> 230, u11374 |-> 230, u11442 |-> 9, u11446 |-> 7, u1145E |-> 230, u114C2 |-> 9,
         u114C3 |-> 7, u115BF |-> 9, u115C0 |-> 7, u1163F |-> 9, u116B6 |-> 9, u116B7 |-> 7, u1172B |-> 9,
         u11839 |-> 9, u1183A |-> 7, u1193D |-> 9, u1193E |-> 9, u11943 |-> 7, u119E0 |-> 9, u11A34 |-> 9,
         u11A47 |-> 9, u11A99 |-> 9, u11C3F |-> 9, u11D42 |-> 7, u11D44 |-> 9, u11D45 |-> 9, u11D97 |-> 9,
         u16AF0 |-> 1, u16AF1 |-> 1, u16AF2 |-> 1, u16AF3 |-> 1, u16AF4 |-> 1, u16B30 |-> 230, u16B31 |-> 230,
         u16B32 |-> 230, u16B33 |-> 230, u16B34 |-> 230, u16B35 |-> 230, u16B36 |-> 230, u16FF0 |-> 6,
         u16FF1 |-> 6, u1BC9E |-> 1, u1D165 |-> 216, u1D166 |-> 216, u1D167 |-> 1, u1D168 |-> 1, u1D169 |-> 1,
         u1D16D |-> 226, u1D16E |-> 216, u1D16F |-> 216, u1D170 |-> 216, u1D171 |-> 216, u1D172 |-> 216,
         u1D17B |-> 220, u1D17C |-> 220, u1D17D |-> 220, u1D17E |-> 220, u1D17F |-> 220, u1D180 |-> 220,
         u1D181 |-> 220, u1D182 |-> 220, u1D185 |-> 230, u1D186 |-> 230, u1D187 |-> 230, u1D188 |-> 230,
         u1D189 |-> 230, u1D18A |-> 220, u1D18B |-> 220, u1D1AA |-> 230, u1D1AB |-> 230, u1D1AC |-> 230,
         u1D1AD |-> 230, u1D242 |-> 230, u1D243 |-> 230, u1D244 |-> 230, u1E000 |-> 230, u1E001 |-> 230,
         u1E002 |-> 230, u1E003 |-> 230, u1E004 |-> 230, u1E005 |-> 230, u1E006 |-> 230, u1E008 |-> 230,
         u1E009 |-> 230, u1E00A |-> 230, u1E00B |-> 230, u1E00C |-> 230, u1E00D |-> 230, u1E00E |-> 230,
         u1E00F |-> 230, u1E010 |-> 230, u1E011 |-> 230, u1E012 |-> 230, u1E013 |-> 230, u1E014 |-> 230,
         u1E015 |-> 230, u1E016 |-> 230, u1E017 |-> 230, u1E018 |-> 230, u1E01B |-> 230, u1E01C |-> 230,
         u1E01D |-> 230, u1E01E |-> 230, u1E01F |-> 230, u1E020 |-> 230, u1E021 |-> 230, u1E023 |-> 230,
         u1E024 |-> 230, u1E026 |-> 230, u1E027 |-> 230, u1E028 |-> 230, u1E029 |-> 230, u1E02A |-> 230,
         u1E130 |-> 230, u1E131 |-> 230, u1E132 |-> 230, u1E133 |-> 230, u1E134 |-> 230, u1E135 |-> 230,
         u1E136 |-> 230, u1E2AE |-> 230, u1E2EC |-> 230, u1E2ED |-> 230, u1E2EE |-> 230, u1E2EF |-> 230,
         u1E8D0 |-> 220, u1E8D1 |-> 220, u1E8D2 |-> 220, u1E8D3 |-> 220, u1E8D4 |-> 220, u1E8D5 |-> 220,
         u1E8D6 |-> 220, u1E944 |-> 230, u1E945 |-> 230, u1E946 |-> 230, u1E947 |-> 230, u1E948 |-> 230,
         u1E949 |-> 230, u1E94A |-> 7],
     marks |->
        {"u0300", "u0301", "u0302", "u0303", "u0304", "u0305", "u0306", "u0307", "u0308", "u0309", "u030A",
         "u030B", "u030C", "u030D", "u030E", "u030F", "u0310", "u0311", "u0312", "u0313", "u0314", "u0315",
         "u0316", "u0317", "u0318", "u0319", "u031A", "u031B", "u031C", "u031D", "u031E", "u031F", "u0320",
         "u0321", "u0322", "u0323", "u0324", "u0325", "u0326", "u0327", "u0328", "u0329", "u032A", "u032B",
         "u032C", "u032D", "u032E", "u032F", "u0330", "u0331", "u0332", "u0333", "u0334", "u0335", "u0336",
         "u0337", "u0338", "u0339", "u033A", "u033B", "u033C", "u033D", "u033E", "u033F", "u0340", "u0341",
         "u0342", "u0343", "u0344", "u0345", "u0346", "u0347", "u0348", "u0349", "u034A", "u034B", "u034C",
         "u034D", "u034E", "u0350", "u0351", "u0352", "u0353", "u0354", "u0355", "u0356", "u0357", "u0358",
         "u0359", "u035A", "u035B", "u035C", "u035D", "u035E", "u035F", "u0360", "u0361", "u0362", "u0363",
         "u0364", "u0365", "u0366", "u0367", "u0368", "u0369", "u036A", "u036B", "u036C", "u036D", "u036E",
         "u036F", "u0483", "u0484", "u0485", "u0486", "u0487", "u0591", "u0592", "u0593", "u0594", "u0595",
         "u0596", "u0597", "u0598", "u0599", "u059A", "u059B", "u059C", "u059D", "u059E", "u059F", "u05A0",
         "u05A1", "u05A2", "u05A3", "u05A4", "u05A5", "u05A6", "u05A7", "u05A8", "u05A9", "u05AA", "u05AB",
         "u05AC", "u05AD", "u05AE", "u05AF", "u05B0", "u05B1", "u05B2", "u05B3", "u05B4", "u05B5", "u05B6",
         "u05B7", "u05B8", "u05B9", "u05BA", "u05BB", "u05BC", "u05BD", "u05BF", "u05C1", "u05C2", "u05C4",
         "u05C5", "u05C7", "u0610", "u0611", "u0612", "u0613", "u0614", "u0615", "u0616", "u0617", "u0618",
         "u0619", "u061A", "u064B", "u064C", "u064D", "u064E", "u064F", "u0650", "u0651", "u0652", "u0653",
         "u0654", "u0655", "u0656", "u0657", "u0658", "u0659", "u065A", "u065B", "u065C", "u065D", "u065E",
         "u065F", "u0670", "u06D6", "u06D7", "u06D8", "u06D9", "u06DA", "u06DB", "u06DC", "u06DF", "u06E0",
         "u06E1", "u06E2", "u06E3", "u06E4", "u06E7", "u06E8", "u06EA", "u06EB", "u06EC", "u06ED", "u0711",
         "u0730", "u0731", "u0732", "u0733", "u0734", "u0735", "u0736", "u0737", "u0738", "u0739", "u073A",
         "u073B", "u073C", "u073D", "u073E", "u073F", "u0740", "u0741", "u0742", "u0743", "u0744", "u0745",
         "u0746", "u0747", "u0748", "u0749", "u074A", "u07EB", "u07EC", "u07ED", "u07EE", "u07EF", "u07F0",
         "u07F1", "u07F2", "u07F3", "u07FD", "u0816", "u0817", "u0818", "u0819", "u081B", "u081C", "u081D",
         "u081E", "u081F", "u0820", "u0821", "u0822", "u0823", "u0825", "u0826", "u0827", "u0829", "u082A",
         "u082B", "u082C", "u082D", "u0859", "u085A", "u085B", "u0898", "u0899", "u089A", "u089B", "u089C",
         "u089D", "u089E", "u089F", "u08CA", "u08CB", "u08CC", "u08CD", "u08CE", "u08CF", "u08D0", "u08D1",
         "u08D2", "u08D3", "u08D4", "u08D5", "u08D6", "u08D7", "u08D8", "u08D9", "u08DA", "u08DB", "u08DC",
         "u08DD", "u08DE", "u08DF", "u08E0", "u08E1", "u08E3", "u08E4", "u08E5", "u08E6", "u08E7", "u08E8",
         "u08E9", "u08EA", "u08EB", "u08EC", "u08ED", "u08EE", "u08EF", "u08F0", "u08F1", "u08F2", "u08F3",
         "u08F4", "u08F5", "u08F6", "u08F7", "u08F8", "u08F9", "u08FA", "u08FB", "u08FC", "u08FD", "u08FE",
         "u08FF", "u093C", "u094D", "u0951", "u0952", "u0953", "u0954", "u09BC", "u09CD", "u09FE", "u0A3C",
         "u0A4D", "u0ABC", "u0ACD", "u0B3C", "u0B4D", "u0BCD", "u0C3C", "u0C4D", "u0C55", "u0C56", "u0CBC",
         "u0CCD", "u0D3B", "u0D3C", "u0D4D", "u0DCA", "u0E38", "u0E39", "u0E3A", "u0E48", "u0E49", "u0E4A",
         "u0E4B", "u0EB8", "u0EB9", "u0EBA", "u0EC8", "u0EC9", "u0ECA", "u0ECB", "u0F18", "u0F19", "u0F35",
         "u0F37", "u0F39", "u0F71", "u0F72", "u0F74", "u0F7A", "u0F7B", "u0F7C", "u0F7D", "u0F80", "u0F82",
         "u0F83", "u0F84", "u0F86", "u0F87", "u0FC6", "u1037", "u1039", "u103A", "u108D", "u135D", "u135E",
         "u135F", "u1714", "u1715", "u1734", "u17D2", "u17DD", "u18A9", "u1939", "u193A", "u193B", "u1A17",
         "u1A18", "u1A60", "u1A75", "u1A76", "u1A77", "u1A78", "u1A79", "u1A7A", "u1A7B", "u1A7C", "u1A7F",
         "u1AB0", "u1AB1", "u1AB2", "u1AB3", "u1AB4", "u1AB5", "u1AB6", "u1AB7", "u1AB8", "u1AB9", "u1ABA",
         "u1ABB", "u1ABC", "u1ABD", "u1ABF", "u1AC0", "u1AC1", "u1AC2", "u1AC3", "u1AC4", "u1AC5", "u1AC6",
         "u1AC7", "u1AC8", "u1AC9", "u1ACA", "u1ACB", "u1ACC", "u1ACD", "u1ACE", "u1B34", "u1B44", "u1B6B",
         "u1B6C", "u1B6D", "u1B6E", "u1B6F", "u1B70", "u1B71", "u1B72", "u1B73", "u1BAA", "u1BAB", "u1BE6",
         "u1BF2", "u1BF3", "u1C37", "u1CD0", "u1CD1", "u1CD2", "u1CD4", "u1CD5", "u1CD6", "u1CD7", "u1CD8",
         "u1CD9", "u1CDA", "u1CDB", "u1CDC", "u1CDD", "u1CDE", "u1CDF", "u1CE0", "u1CE2", "u1CE3", "u1CE4",
         "u1CE5", "u1CE6", "u1CE7", "u1CE8", "u1CED", "u1CF4", "u1CF8", "u1CF9", "u1DC0", "u1DC1", "u1DC2",
         "u1DC3", "u1DC4", "u1DC5", "u1DC6", "u1DC7", "u1DC8", "u1DC9", "u1DCA", "u1DCB", "u1DCC", "u1DCD",
         "u1DCE", "u1DCF", "u1DD0", "u1DD1", "u1DD2", "u1DD3", "u1DD4", "u1DD5", "u1DD6", "u1DD7", "u1DD8",
         "u1DD9", "u1DDA", "u1DDB", "u1DDC", "u1DDD", "u1DDE", "u1DDF", "u1DE0", "u1DE1", "u1DE2", "u1DE3",
         "u1DE4", "u1DE5", "u1DE6", "u1DE7", "u1DE8", "u1DE9", "u1DEA", "u1DEB", "u1DEC", "u1DED", "u1DEE",
         "u1DEF", "u1DF0", "u1DF1", "u1DF2", "u1DF3", "u1DF4", "u1DF5", "u1DF6", "u1DF7", "u1DF8", "u1DF9",
         "u1DFA", "u1DFB", "u1DFC", "u1DFD", "u1DFE", "u1DFF", "u20D0", "u20D1", "u20D2", "u20D3", "u20D4",
         "u20D5", "u20D6", "u20D7", "u20D8", "u20D9", "u20DA", "u20DB", "u20DC", "u20E1", "u20E5", "u20E6",
         "u20E7", "u20E8", "u20E9", "u20EA", "u20EB", "u20EC", "u20ED", "u20EE", "u20EF", "u20F0", "u2CEF",
         "u2CF0", "u2CF1", "u2D7F", "u2DE0", "u2DE1", "u2DE2", "u2DE3", "u2DE4", "u2DE5", "u2DE6", "u2DE7",
         "u2DE8", "u2DE9", "u2DEA", "u2DEB", "u2DEC", "u2DED", "u2DEE", "u2DEF", "u2DF0", "u2DF1", "u2DF2",
         "u2DF3", "u2DF4", "u2DF5", "u2DF6", "u2DF7", "u2DF8", "u2DF9", "u2DFA", "u2DFB", "u2DFC", "u2DFD",
         "u2DFE", "u2DFF", "u302A", "u302B", "u302C", "u302D", "u302E", "u302F", "u3099", "u309A", "uA66F",
         "uA674", "uA675", "uA676", "uA677", "uA678", "uA679", "uA67A", "uA67B", "uA67C", "uA67D", "uA69E",
         "uA69F", "uA6F0", "uA6F1", "uA806", "uA82C", "uA8C4", "uA8E0", "uA8E1", "uA8E2", "uA8E3", "uA8E4",
         "uA8E5", "uA8E6", "uA8E7", "uA8E8", "uA8E9", "uA8EA", "uA8EB", "uA8EC", "uA8ED", "uA8EE", "uA8EF",
         "uA8F0", "uA8F1", "uA92B", "uA92C", "uA92D", "uA953", "uA9B3", "uA9C0", "uAAB0", "uAAB2", "uAAB3",
         "uAAB4", "uAAB7", "uAAB8", "uAABE", "uAABF", "uAAC1", "uAAF6", "uABED", "uFB1E", "uFE20", "uFE21",
         "uFE22", "uFE23", "uFE24", "uFE25", "uFE26", "uFE27", "uFE28", "uFE29", "uFE2A", "uFE2B", "uFE2C",
         "uFE2D", "uFE2E", "uFE2F", "u101FD", "u102E0", "u10376", "u10377", "u10378", "u10379", "u1037A",
         "u10A0D", "u10A0F", "u10A38", "u10A39", "u10A3A", "u10A3F", "u10AE5", "u10AE6", "u10D24", "u10D25",
         "u10D26", "u10D27", "u10EAB", "u10EAC", "u10F46", "u10F47", "u10F48", "u10F49", "u10F4A", "u10F4B",
         "u10F4C", "u10F4D", "u10F4E", "u10F4F", "u10F50", "u10F82", "u10F83", "u10F84", "u10F85", "u11046",
         "u11070", "u1107F", "u110B9", "u110BA", "u11100", "u11101", "u11102", "u11133", "u11134", "u11173",
         "u111C0", "u111CA", "u11235", "u11236", "u112E9", "u112EA", "u1133B", "u1133C", "u1134D", "u11366",
         "u11367", "u11368", "u11369", "u1136A", "u1136B", "u1136C", "u11370", "u11371", "u11372", "u11373",
         "u11374", "u11442", "u11446", "u1145E", "u114C2", "u114C3", "u115BF", "u115C0", "u1163F", "u116B6",
         "u116B7", "u1172B", "u11839", "u1183A", "u1193D", "u1193E", "u11943", "u119E0", "u11A34", "u11A47",
         "u11A99", "u11C3F", "u11D42", "u11D44", "u11D45", "u11D97", "u16AF0", "u16AF1", "u16AF2", "u16AF3",
         "u16AF4", "u16B30", "u16B31", "u16B32", "u16B33", "u16B34", "u16B35", "u16B36", "u16FF0", "u16FF1",
         "u1BC9E", "u1D165", "u1D166", "u1D167", "u1D168", "u1D169", "u1D16D", "u1D16E", "u1D16F", "u1D170",
         "u1D171", "u1D172", "u1D17B", "u1D17C", "u1D17D", "u1D17E", "u1D17F", "u1D180", "u1D181", "u1D182",
         "u1D185", "u1D186", "u1D187", "u1D188", "u1D189", "u1D18A", "u1D18B", "u1D1AA", "u1D1AB", "u1D1AC",
         "u1D1AD", "u1D242", "u1D243", "u1D244", "u1E000", "u1E001", "u1E002", "u1E003", "u1E004", "u1E005",
         "u1E006", "u1E008", "u1E009", "u1E00A", "u1E00B", "u1E00C", "u1E00D", "u1E00E", "u1E00F", "u1E010",
         "u1E011", "u1E012", "u1E013", "u1E014", "u1E015", "u1E016", "u1E017", "u1E018", "u1E01B", "u1E01C",
         "u1E01D", "u1E01E", "u1E01F", "u1E020", "u1E021", "u1E023", "u1E024", "u1E026", "u1E027", "u1E028",
         "u1E029", "u1E02A", "u1E130", "u1E131", "u1E132", "u1E133", "u1E134", "u1E135", "u1E136", "u1E2AE",
         "u1E2EC", "u1E2ED", "u1E2EE", "u1E2EF", "u1E8D0", "u1E8D1", "u1E8D2", "u1E8D3", "u1E8D4", "u1E8D5",
         "u1E8D6", "u1E944", "u1E945", "u1E946", "u1E947", "u1E948", "u1E949", "u1E94A"},
     composition |->
        [u0300 |-> {<<"A", "u00C0">>, <<"E", "u00C8">>, <<"I", "u00CC">>, <<"N", "u01F8">>, <<"O", "u00D2">>,
                    <<"U", "u00D9">>, <<"W", "u1E80">>, <<"Y", "u1EF2">>, <<"a", "u00E0">>, <<"e", "u00E8">>,
                    <<"i", "u00EC">>, <<"n", "u01F9">>, <<"o", "u00F2">>, <<"u", "u00F9">>, <<"w", "u1E81">>,
                    <<"y", "u1EF3">>, <<"u00A8", "u1FED">>, <<"u00C2", "u1EA6">>, <<"u00CA", "u1EC0">>,
                    <<"u00D4", "u1ED2">>, <<"u00DC", "u01DB">>, <<"u00E2", "u1EA7">>, <<"u00EA", "u1EC1">>,
                    <<"u00F4", "u1ED3">>, <<"u00FC", "u01DC">>, <<"u0102", "u1EB0">>, <<"u0103", "u1EB1">>,
                    <<"u0112", "u1E14">>, <<"u0113", "u1E15">>, <<"u014C", "u1E50">>, <<"u014D", "u1E51">>,
                    <<"u01A0", "u1EDC">>, <<"u01A1", "u1EDD">>, <<"u01AF", "u1EEA">>, <<"u01B0", "u1EEB">>,
                    <<"u0391", "u1FBA">>, <<"u0395", "u1FC8">>, <<"u0397", "u1FCA">>, <<"u0399", "u1FDA">>,
                    <<"u039F", "u1FF8">>, <<"u03A5", "u1FEA">>, <<"u03A9", "u1FFA">>, <<"u03B1", "u1F70">>,
                    <<"u03B5", "u1F72">>, <<"u03B7", "u1F74">>, <<"u03B9", "u1F76">>, <<"u03BF", "u1F78">>,
                    <<"u03C5", "u1F7A">>, <<"u03C9", "u1F7C">>, <<"u03CA", "u1FD2">>, <<"u03CB", "u1FE2">>,
                    <<"u0415", "u0400">>, <<"u0418", "u040D">>, <<"u0435", "u0450">>, <<"u0438", "u045D">>,
                    <<"u1F00", "u1F02">>, <<"u1F01", "u1F03">>, <<"u1F08", "u1F0A">>, <<"u1F09", "u1F0B">>,
                    <<"u1F10", "u1F12">>, <<"u1F11", "u1F13">>, <<"u1F18", "u1F1A">>, <<"u1F19", "u1F1B">>,
                    <<"u1F20", "u1F22">>, <<"u1F21", "u1F23">>, <<"u1F28", "u1F2A">>, <<"u1F29", "u1F2B">>,
                    <<"u1F30", "u1F32">>, <<"u1F31", "u1F33">>, <<"u1F38", "u1F3A">>, <<"u1F39", "u1F3B">>,
                    <<"u1F40", "u1F42">>, <<"u1F41", "u1F43">>, <<"u1F48", "u1F4A">>, <<"u1F49", "u1F4B">>,
                    <<"u1F50", "u1F52">>, <<"u1F51", "u1F53">>, <<"u1F59", "u1F5B">>, <<"u1F60", "u1F62">>,
                    <<"u1F61", "u1F63">>, <<"u1F68", "u1F6A">>, <<"u1F69", "u1F6B">>, <<"u1FBF", "u1FCD">>,
                    <<"u1FFE", "u1FDD">>},
         u0301 |-> {<<"A", "u00C1">>, <<"C", "u0106">>, <<"E", "u00C9">>, <<"G", "u01F4">>, <<"I", "u00CD">>,
                    <<"K", "u1E30">>, <<"L", "u0139">>, <<"M", "u1E3E">>, <<"N", "u0143">>, <<"O", "u00D3">>,
                    <<"P", "u1E54">>, <<"R", "u0154">>, <<"S", "u015A">>, <<"U", "u00DA">>, <<"W", "u1E82">>,
                    <<"Y", "u00DD">>, <<"Z", "u0179">>, <<"a", "u00E1">>, <<"c", "u0107">>, <<"e", "u00E9">>,
                    <<"g", "u01F5">>, <<"i", "u00ED">>, <<"k", "u1E31">>, <<"l", "u013A">>, <<"m", "u1E3F">>,
                    <<"n", "u0144">>, <<"o", "u00F3">>, <<"p", "u1E55">>, <<"r", "u0155">>, <<"s", "u015B">>,
                    <<"u", "u00FA">>, <<"w", "u1E83">>, <<"y", "u00FD">>, <<"z", "u017A">>, <<"u00A8", "u0385">>,
                    <<"u00C2", "u1EA4">>, <<"u00C5", "u01FA">>, <<"u00C6", "u01FC">>, <<"u00C7", "u1E08">>,
                    <<"u00CA", "u1EBE">>, <<"u00CF", "u1E2E">>, <<"u00D4", "u1ED0">>, <<"u00D5", "u1E4C">>,
                    <<"u00D8", "u01FE">>, <<"u00DC", "u01D7">>, <<"u00E2", "u1EA5">>, <<"u00E5", "u01FB">>,
                    <<"u00E6", "u01FD">>, <<"u00E7", "u1E09">>, <<"u00EA", "u1EBF">>, <<"u00EF", "u1E2F">>,
                    <<"u00F4", "u1ED1">>, <<"u00F5", "u1E4D">>, <<"u00F8", "u01FF">>, <<"u00FC", "u01D8">>,
                    <<"u0102", "u1EAE">>, <<"u0103", "u1EAF">>, <<"u0112", "u1E16">>, <<"u0113", "u1E17">>,
                    <<"u014C", "u1E52">>, <<"u014D", "u1E53">>, <<"u0168", "u1E78">>, <<"u0169", "u1E79">>,
                    <<"u01A0", "u1EDA">>, <<"u01A1", "u1EDB">>, <<"u01AF", "u1EE8">>, <<"u01B0", "u1EE9">>,
                    <<"u0391", "u0386">>, <<"u0395", "u0388">>, <<"u0397", "u0389">>, <<"u0399", "u038A">>,
                    <<"u039F", "u038C">>, <<"u03A5", "u038E">>, <<"u03A9", "u038F">>, <<"u03B1", "u03AC">>,
                    <<"u03B5", "u03AD">>, <<"u03B7", "u03AE">>, <<"u03B9", "u03AF">>, <<"u03BF", "u03CC">>,
                    <<"u03C5", "u03CD">>, <<"u03C9", "u03CE">>, <<"u03CA", "u0390">>, <<"u03CB", "u03B0">>,
                    <<"u03D2", "u03D3">>, <<"u0413", "u0403">>, <<"u041A", "u040C">>, <<"u0433", "u0453">>,
                    <<"u043A", "u045C">>, <<"u1F00", "u1F04">>, <<"u1F01", "u1F05">>, <<"u1F08", "u1F0C">>,
                    <<"u1F09", "u1F0D">>, <<"u1F10", "u1F14">>, <<"u1F11", "u1F15">>, <<"u1F18", "u1F1C">>,
                    <<"u1F19", "u1F1D">>, <<"u1F20", "u1F24">>, <<"u1F21", "u1F25">>, <<"u1F28", "u1F2C">>,
                    <<"u1F29", "u1F2D">>, <<"u1F30", "u1F34">>, <<"u1F31", "u1F35">>, <<"u1F38", "u1F3C">>,
                    <<"u1F39", "u1F3D">>, <<"u1F40", "u1F44">>, <<"u1F41", "u1F45">>, <<"u1F48", "u1F4C">>,
                    <<"u1F49", "u1F4D">>, <<"u1F50", "u1F54">>, <<"u1F51", "u1F55">>, <<"u1F59", "u1F5D">>,
                    <<"u1F60", "u1F64">>, <<"u1F61", "u1F65">>, <<"u1F68", "u1F6C">>, <<"u1F69", "u1F6D">>,
                    <<"u1FBF", "u1FCE">>, <<"u1FFE", "u1FDE">>},
         u0302 |-> {<<"A", "u00C2">>, <<"C", "u0108">>, <<"E", "u00CA">>, <<"G", "u011C">>, <<"H", "u0124">>,
                    <<"I", "u00CE">>, <<"J", "u0134">>, <<"O", "u00D4">>, <<"S", "u015C">>, <<"U", "u00DB">>,
                    <<"W", "u0174">>, <<"Y", "u0176">>, <<"Z", "u1E90">>, <<"a", "u00E2">>, <<"c", "u0109">>,
                    <<"e", "u00EA">>, <<"g", "u011D">>, <<"h", "u0125">>, <<"i", "u00EE">>, <<"j", "u0135">>,
                    <<"o", "u00F4">>, <<"s", "u015D">>, <<"u", "u00FB">>, <<"w", "u0175">>, <<"y", "u0177">>,
                    <<"z", "u1E91">>, <<"u1EA0", "u1EAC">>, <<"u1EA1", "u1EAD">>, <<"u1EB8", "u1EC6">>,
                    <<"u1EB9", "u1EC7">>, <<"u1ECC", "u1ED8">>, <<"u1ECD", "u1ED9">>},
         u0303 |-> {<<"A", "u00C3">>, <<"E", "u1EBC">>, <<"I", "u0128">>, <<"N", "u00D1">>, <<"O", "u00D5">>,
                    <<"U", "u0168">>, <<"V", "u1E7C">>, <<"Y", "u1EF8">>, <<"a", "u00E3">>, <<"e", "u1EBD">>,
                    <<"i", "u0129">>, <<"n", "u00F1">>, <<"o", "u00F5">>, <<"u", "u0169">>, <<"v", "u1E7D">>,
                    <<"y", "u1EF9">>, <<"u00C2", "u1EAA">>, <<"u00CA", "u1EC4">>, <<"u00D4", "u1ED6">>,
                    <<"u00E2", "u1EAB">>, <<"u00EA", "u1EC5">>, <<"u00F4", "u1ED7">>, <<"u0102", "u1EB4">>,
                    <<"u0103", "u1EB5">>, <<"u01A0", "u1EE0">>, <<"u01A1", "u1EE1">>, <<"u01AF", "u1EEE">>,
                    <<"u01B0", "u1EEF">>},
         u0304 |-> {<<"A", "u0100">>, <<"E", "u0112">>, <<"G", "u1E20">>, <<"I", "u012A">>, <<"O", "u014C">>,
                    <<"U", "u016A">>, <<"Y", "u0232">>, <<"a", "u0101">>, <<"e", "u0113">>, <<"g", "u1E21">>,
                    <<"i", "u012B">>, <<"o", "u014D">>, <<"u", "u016B">>, <<"y", "u0233">>, <<"u00C4", "u01DE">>,
                    <<"u00C6", "u01E2">>, <<"u00D5", "u022C">>, <<"u00D6", "u022A">>, <<"u00DC", "u01D5">>,
                    <<"u00E4", "u01DF">>, <<"u00E6", "u01E3">>, <<"u00F5", "u022D">>, <<"u00F6", "u022B">>,
                    <<"u00FC", "u01D6">>, <<"u01EA", "u01EC">>, <<"u01EB", "u01ED">>, <<"u0226", "u01E0">>,
                    <<"u0227", "u01E1">>, <<"u022E", "u0230">>, <<"u022F", "u0231">>, <<"u0391", "u1FB9">>,
                    <<"u0399", "u1FD9">>, <<"u03A5", "u1FE9">>, <<"u03B1", "u1FB1">>, <<"u03B9", "u1FD1">>,
                    <<"u03C5", "u1FE1">>, <<"u0418", "u04E2">>, <<"u0423", "u04EE">>, <<"u0438", "u04E3">>,
                    <<"u0443", "u04EF">>, <<"u1E36", "u1E38">>, <<"u1E37", "u1E39">>, <<"u1E5A", "u1E5C">>,
                    <<"u1E5B", "u1E5D">>},
         u0306 |-> {<<"A", "u0102">>, <<"E", "u0114">>, <<"G", "u011E">>, <<"I", "u012C">>, <<"O", "u014E">>,
                    <<"U", "u016C">>, <<"a", "u0103">>, <<"e", "u0115">>, <<"g", "u011F">>, <<"i", "u012D">>,
                    <<"o", "u014F">>, <<"u", "u016D">>, <<"u0228", "u1E1C">>, <<"u0229", "u1E1D">>, <<"u0391", "u1FB8">>,
                    <<"u0399", "u1FD8">>, <<"u03A5", "u1FE8">>, <<"u03B1", "u1FB0">>, <<"u03B9", "u1FD0">>,
                    <<"u03C5", "u1FE0">>, <<"u0410", "u04D0">>, <<"u0415", "u04D6">>, <<"u0416", "u04C1">>,
                    <<"u0418", "u0419">>, <<"u0423", "u040E">>, <<"u0430", "u04D1">>, <<"u0435", "u04D7">>,
                    <<"u0436", "u04C2">>, <<"u0438", "u0439">>, <<"u0443", "u045E">>, <<"u1EA0", "u1EB6">>,
                    <<"u1EA1", "u1EB7">>},
         u0307 |-> {<<"A", "u0226">>, <<"B", "u1E02">>, <<"C", "u010A">>, <<"D", "u1E0A">>, <<"E", "u0116">>,
                    <<"F", "u1E1E">>, <<"G", "u0120">>, <<"H", "u1E22">>, <<"I", "u0130">>, <<"M", "u1E40">>,
                    <<"N", "u1E44">>, <<"O", "u022E">>, <<"P", "u1E56">>, <<"R", "u1E58">>, <<"S", "u1E60">>,
                    <<"T", "u1E6A">>, <<"W", "u1E86">>, <<"X", "u1E8A">>, <<"Y", "u1E8E">>, <<"Z", "u017B">>,
                    <<"a", "u0227">>, <<"b", "u1E03">>, <<"c", "u010B">>, <<"d", "u1E0B">>, <<"e", "u0117">>,
                    <<"f", "u1E1F">>, <<"g", "u0121">>, <<"h", "u1E23">>, <<"m", "u1E41">>, <<"n", "u1E45">>,
                    <<"o", "u022F">>, <<"p", "u1E57">>, <<"r", "u1E59">>, <<"s", "u1E61">>, <<"t", "u1E6B">>,
                    <<"w", "u1E87">>, <<"x", "u1E8B">>, <<"y", "u1E8F">>, <<"z", "u017C">>, <<"u015A", "u1E64">>,
                    <<"u015B", "u1E65">>, <<"u0160", "u1E66">>, <<"u0161", "u1E67">>, <<"u017F", "u1E9B">>,
                    <<"u1E62", "u1E68">>, <<"u1E63", "u1E69">>},
         u0308 |-> {<<"A", "u00C4">>, <<"E", "u00CB">>, <<"H", "u1E26">>, <<"I", "u00CF">>, <<"O", "u00D6">>,
                    <<"U", "u00DC">>, <<"W", "u1E84">>, <<"X", "u1E8C">>, <<"Y", "u0178">>, <<"a", "u00E4">>,
                    <<"e", "u00EB">>, <<"h", "u1E27">>, <<"i", "u00EF">>, <<"o", "u00F6">>, <<"t", "u1E97">>,
                    <<"u", "u00FC">>, <<"w", "u1E85">>, <<"x", "u1E8D">>, <<"y", "u00FF">>, <<"u00D5", "u1E4E">>,
                    <<"u00F5", "u1E4F">>, <<"u016A", "u1E7A">>, <<"u016B", "u1E7B">>, <<"u0399", "u03AA">>,
                    <<"u03A5", "u03AB">>, <<"u03B9", "u03CA">>, <<"u03C5", "u03CB">>, <<"u03D2", "u03D4">>,
                    <<"u0406", "u0407">>, <<"u0410", "u04D2">>, <<"u0415", "u0401">>, <<"u0416", "u04DC">>,
                    <<"u0417", "u04DE">>, <<"u0418", "u04E4">>, <<"u041E", "u04E6">>, <<"u0423", "u04F0">>,
                    <<"u0427", "u04F4">>, <<"u042B", "u04F8">>, <<"u042D", "u04EC">>, <<"u0430", "u04D3">>,
                    <<"u0435", "u0451">>, <<"u0436", "u04DD">>, <<"u0437", "u04DF">>, <<"u0438", "u04E5">>,
                    <<"u043E", "u04E7">>, <<"u0443", "u04F1">>, <<"u0447", "u04F5">>, <<"u044B", "u04F9">>,
                    <<"u044D", "u04ED">>, <<"u0456", "u0457">>, <<"u04D8", "u04DA">>, <<"u04D9", "u04DB">>,
                    <<"u04E8", "u04EA">>, <<"u04E9", "u04EB">>},
         u0309 |-> {<<"A", "u1EA2">>, <<"E", "u1EBA">>, <<"I", "u1EC8">>, <<"O", "u1ECE">>, <<"U", "u1EE6">>,
                    <<"Y", "u1EF6">>, <<"a", "u1EA3">>, <<"e", "u1EBB">>, <<"i", "u1EC9">>, <<"o", "u1ECF">>,
                    <<"u", "u1EE7">>, <<"y", "u1EF7">>, <<"u00C2", "u1EA8">>, <<"u00CA", "u1EC2">>, <<"u00D4", "u1ED4">>,
                    <<"u00E2", "u1EA9">>, <<"u00EA", "u1EC3">>, <<"u00F4", "u1ED5">>, <<"u0102", "u1EB2">>,
                    <<"u0103", "u1EB3">>, <<"u01A0", "u1EDE">>, <<"u01A1", "u1EDF">>, <<"u01AF", "u1EEC">>,
                    <<"u01B0", "u1EED">>},
         u030A |-> {<<"A", "u00C5">>, <<"U", "u016E">>, <<"a", "u00E5">>, <<"u", "u016F">>, <<"w", "u1E98">>,
                    <<"y", "u1E99">>},
         u030B |-> {<<"O", "u0150">>, <<"U", "u0170">>, <<"o", "u0151">>, <<"u", "u0171">>, <<"u0423", "u04F2">>,
                    <<"u0443", "u04F3">>},
         u030C |-> {<<"A", "u01CD">>, <<"C", "u010C">>, <<"D", "u010E">>, <<"E", "u011A">>, <<"G", "u01E6">>,
                    <<"H", "u021E">>, <<"I", "u01CF">>, <<"K", "u01E8">>, <<"L", "u013D">>, <<"N", "u0147">>,
                    <<"O", "u01D1">>, <<"R", "u0158">>, <<"S", "u0160">>, <<"T", "u0164">>, <<"U", "u01D3">>,
                    <<"Z", "u017D">>, <<"a", "u01CE">>, <<"c", "u010D">>, <<"d", "u010F">>, <<"e", "u011B">>,
                    <<"g", "u01E7">>, <<"h", "u021F">>, <<"i", "u01D0">>, <<"j", "u01F0">>, <<"k", "u01E9">>,
                    <<"l", "u013E">>, <<"n", "u0148">>, <<"o", "u01D2">>, <<"r", "u0159">>, <<"s", "u0161">>,
                    <<"t", "u0165">>, <<"u", "u01D4">>, <<"z", "u017E">>, <<"u00DC", "u01D9">>, <<"u00FC", "u01DA">>,
                    <<"u01B7", "u01EE">>, <<"u0292", "u01EF">>},
         u030F |-> {<<"A", "u0200">>, <<"E", "u0204">>, <<"I", "u0208">>, <<"O", "u020C">>, <<"R", "u0210">>,
                    <<"U", "u0214">>, <<"a", "u0201">>, <<"e", "u0205">>, <<"i", "u0209">>, <<"o", "u020D">>,
                    <<"r", "u0211">>, <<"u", "u0215">>, <<"u0474", "u0476">>, <<"u0475", "u0477">>},
         u0311 |-> {<<"A", "u0202">>, <<"E", "u0206">>, <<"I", "u020A">>, <<"O", "u020E">>, <<"R", "u0212">>,
                    <<"U", "u0216">>, <<"a", "u0203">>, <<"e", "u0207">>, <<"i", "u020B">>, <<"o", "u020F">>,
                    <<"r", "u0213">>, <<"u", "u0217">>},
         u0313 |-> {<<"u0391", "u1F08">>, <<"u0395", "u1F18">>, <<"u0397", "u1F28">>, <<"u0399", "u1F38">>,
                    <<"u039F", "u1F48">>, <<"u03A9", "u1F68">>, <<"u03B1", "u1F00">>, <<"u03B5", "u1F10">>,
                    <<"u03B7", "u1F20">>, <<"u03B9", "u1F30">>, <<"u03BF", "u1F40">>, <<"u03C1", "u1FE4">>,
                    <<"u03C5", "u1F50">>, <<"u03C9", "u1F60">>},
         u0314 |-> {<<"u0391", "u1F09">>, <<"u0395", "u1F19">>, <<"u0397", "u1F29">>, <<"u0399", "u1F39">>,
                    <<"u039F", "u1F49">>, <<"u03A1", "u1FEC">>, <<"u03A5", "u1F59">>, <<"u03A9", "u1F69">>,
                    <<"u03B1", "u1F01">>, <<"u03B5", "u1F11">>, <<"u03B7", "u1F21">>, <<"u03B9", "u1F31">>,
                    <<"u03BF", "u1F41">>, <<"u03C1", "u1FE5">>, <<"u03C5", "u1F51">>, <<"u03C9", "u1F61">>},
         u031B |-> {<<"O", "u01A0">>, <<"U", "u01AF">>, <<"o", "u01A1">>, <<"u", "u01B0">>},
         u0323 |-> {<<"A", "u1EA0">>, <<"B", "u1E04">>, <<"D", "u1E0C">>, <<"E", "u1EB8">>, <<"H", "u1E24">>,
                    <<"I", "u1ECA">>, <<"K", "u1E32">>, <<"L", "u1E36">>, <<"M", "u1E42">>, <<"N", "u1E46">>,
                    <<"O", "u1ECC">>, <<"R", "u1E5A">>, <<"S", "u1E62">>, <<"T", "u1E6C">>, <<"U", "u1EE4">>,
                    <<"V", "u1E7E">>, <<"W", "u1E88">>, <<"Y", "u1EF4">>, <<"Z", "u1E92">>, <<"a", "u1EA1">>,
                    <<"b", "u1E05">>, <<"d", "u1E0D">>, <<"e", "u1EB9">>, <<"h", "u1E25">>, <<"i", "u1ECB">>,
                    <<"k", "u1E33">>, <<"l", "u1E37">>, <<"m", "u1E43">>, <<"n", "u1E47">>, <<"o", "u1ECD">>,
                    <<"r", "u1E5B">>, <<"s", "u1E63">>, <<"t", "u1E6D">>, <<"u", "u1EE5">>, <<"v", "u1E7F">>,
                    <<"w", "u1E89">>, <<"y", "u1EF5">>, <<"z", "u1E93">>, <<"u01A0", "u1EE2">>, <<"u01A1", "u1EE3">>,
                    <<"u01AF", "u1EF0">>, <<"u01B0", "u1EF1">>},
         u0324 |-> {<<"U", "u1E72">>, <<"u", "u1E73">>}, u0325 |-> {<<"A", "u1E00">>, <<"a", "u1E01">>},
         u0326 |-> {<<"S", "u0218">>, <<"T", "u021A">>, <<"s", "u0219">>, <<"t", "u021B">>},
         u0327 |-> {<<"C", "u00C7">>, <<"D", "u1E10">>, <<"E", "u0228">>, <<"G", "u0122">>, <<"H", "u1E28">>,
                    <<"K", "u0136">>, <<"L", "u013B">>, <<"N", "u0145">>, <<"R", "u0156">>, <<"S", "u015E">>,
                    <<"T", "u0162">>, <<"c", "u00E7">>, <<"d", "u1E11">>, <<"e", "u0229">>, <<"g", "u0123">>,
                    <<"h", "u1E29">>, <<"k", "u0137">>, <<"l", "u013C">>, <<"n", "u0146">>, <<"r", "u0157">>,
                    <<"s", "u015F">>, <<"t", "u0163">>},
         u0328 |-> {<<"A", "u0104">>, <<"E", "u0118">>, <<"I", "u012E">>, <<"O", "u01EA">>, <<"U", "u0172">>,
                    <<"a", "u0105">>, <<"e", "u0119">>, <<"i", "u012F">>, <<"o", "u01EB">>, <<"u", "u0173">>},
         u032D |-> {<<"D", "u1E12">>, <<"E", "u1E18">>, <<"L", "u1E3C">>, <<"N", "u1E4A">>, <<"T", "u1E70">>,
                    <<"U", "u1E76">>, <<"d", "u1E13">>, <<"e", "u1E19">>, <<"l", "u1E3D">>, <<"n", "u1E4B">>,
                    <<"t", "u1E71">>, <<"u", "u1E77">>},
         u032E |-> {<<"H", "u1E2A">>, <<"h", "u1E2B">>},
         u0330 |-> {<<"E", "u1E1A">>, <<"I", "u1E2C">>, <<"U", "u1E74">>, <<"e", "u1E1B">>, <<"i", "u1E2D">>,
                    <<"u", "u1E75">>},
         u0331 |-> {<<"B", "u1E06">>, <<"D", "u1E0E">>, <<"K", "u1E34">>, <<"L", "u1E3A">>, <<"N", "u1E48">>,
                    <<"R", "u1E5E">>, <<"T", "u1E6E">>, <<"Z", "u1E94">>, <<"b", "u1E07">>, <<"d", "u1E0F">>,
                    <<"h", "u1E96">>, <<"k", "u1E35">>, <<"l", "u1E3B">>, <<"n", "u1E49">>, <<"r", "u1E5F">>,
                    <<"t", "u1E6F">>, <<"z", "u1E95">>},
         u0338 |-> {<<"<", "u226E">>, <<"=", "u2260">>, <<">", "u226F">>, <<"u2190", "u219A">>, <<"u2192", "u219B">>,
                    <<"u2194", "u21AE">>, <<"u21D0", "u21CD">>, <<"u21D2", "u21CF">>, <<"u21D4", "u21CE">>,
                    <<"u2203", "u2204">>, <<"u2208", "u2209">>, <<"u220B", "u220C">>, <<"u2223", "u2224">>,
                    <<"u2225", "u2226">>, <<"u223C", "u2241">>, <<"u2243", "u2244">>, <<"u2245", "u2247">>,
                    <<"u2248", "u2249">>, <<"u224D", "u226D">>, <<"u2261", "u2262">>, <<"u2264", "u2270">>,
                    <<"u2265", "u2271">>, <<"u2272", "u2274">>, <<"u2273", "u2275">>, <<"u2276", "u2278">>,
                    <<"u2277", "u2279">>, <<"u227A", "u2280">>, <<"u227B", "u2281">>, <<"u227C", "u22E0">>,
                    <<"u227D", "u22E1">>, <<"u2282", "u2284">>, <<"u2283", "u2285">>, <<"u2286", "u2288">>,
                    <<"u2287", "u2289">>, <<"u2291", "u22E2">>, <<"u2292", "u22E3">>, <<"u22A2", "u22AC">>,
                    <<"u22A8", "u22AD">>, <<"u22A9", "u22AE">>, <<"u22AB", "u22AF">>, <<"u22B2", "u22EA">>,
                    <<"u22B3", "u22EB">>, <<"u22B4", "u22EC">>, <<"u22B5", "u22ED">>},
         u0342 |-> {<<"u00A8", "u1FC1">>, <<"u03B1", "u1FB6">>, <<"u03B7", "u1FC6">>, <<"u03B9", "u1FD6">>,
                    <<"u03C5", "u1FE6">>, <<"u03C9", "u1FF6">>, <<"u03CA", "u1FD7">>, <<"u03CB", "u1FE7">>,
                    <<"u1F00", "u1F06">>, <<"u1F01", "u1F07">>, <<"u1F08", "u1F0E">>, <<"u1F09", "u1F0F">>,
                    <<"u1F20", "u1F26">>, <<"u1F21", "u1F27">>, <<"u1F28", "u1F2E">>, <<"u1F29", "u1F2F">>,
                    <<"u1F30", "u1F36">>, <<"u1F31", "u1F37">>, <<"u1F38", "u1F3E">>, <<"u1F39", "u1F3F">>,
                    <<"u1F50", "u1F56">>, <<"u1F51", "u1F57">>, <<"u1F59", "u1F5F">>, <<"u1F60", "u1F66">>,
                    <<"u1F61", "u1F67">>, <<"u1F68", "u1F6E">>, <<"u1F69", "u1F6F">>, <<"u1FBF", "u1FCF">>,
                    <<"u1FFE", "u1FDF">>},
         u0345 |-> {<<"u0391", "u1FBC">>, <<"u0397", "u1FCC">>, <<"u03A9", "u1FFC">>, <<"u03AC", "u1FB4">>,
                    <<"u03AE", "u1FC4">>, <<"u03B1", "u1FB3">>, <<"u03B7", "u1FC3">>, <<"u03C9", "u1FF3">>,
                    <<"u03CE", "u1FF4">>, <<"u1F00", "u1F80">>, <<"u1F01", "u1F81">>, <<"u1F02", "u1F82">>,
                    <<"u1F03", "u1F83">>, <<"u1F04", "u1F84">>, <<"u1F05", "u1F85">>, <<"u1F06", "u1F86">>,
                    <<"u1F07", "u1F87">>, <<"u1F08", "u1F88">>, <<"u1F09", "u1F89">>, <<"u1F0A", "u1F8A">>,
                    <<"u1F0B", "u1F8B">>, <<"u1F0C", "u1F8C">>, <<"u1F0D", "u1F8D">>, <<"u1F0E", "u1F8E">>,
                    <<"u1F0F", "u1F8F">>, <<"u1F20", "u1F90">>, <<"u1F21", "u1F91">>, <<"u1F22", "u1F92">>,
                    <<"u1F23", "u1F93">>, <<"u1F24", "u1F94">>, <<"u1F25", "u1F95">>, <<"u1F26", "u1F96">>,
                    <<"u1F27", "u1F97">>, <<"u1F28", "u1F98">>, <<"u1F29", "u1F99">>, <<"u1F2A", "u1F9A">>,
                    <<"u1F2B", "u1F9B">>, <<"u1F2C", "u1F9C">>, <<"u1F2D", "u1F9D">>, <<"u1F2E", "u1F9E">>,
                    <<"u1F2F", "u1F9F">>, <<"u1F60", "u1FA0">>, <<"u1F61", "u1FA1">>, <<"u1F62", "u1FA2">>,
                    <<"u1F63", "u1FA3">>, <<"u1F64", "u1FA4">>, <<"u1F65", "u1FA5">>, <<"u1F66", "u1FA6">>,
                    <<"u1F67", "u1FA7">>, <<"u1F68", "u1FA8">>, <<"u1F69", "u1FA9">>, <<"u1F6A", "u1FAA">>,
                    <<"u1F6B", "u1FAB">>, <<"u1F6C", "u1FAC">>, <<"u1F6D", "u1FAD">>, <<"u1F6E", "u1FAE">>,
                    <<"u1F6F", "u1FAF">>, <<"u1F70", "u1FB2">>, <<"u1F74", "u1FC2">>, <<"u1F7C", "u1FF2">>,
                    <<"u1FB6", "u1FB7">>, <<"u1FC6", "u1FC7">>, <<"u1FF6", "u1FF7">>},
         u0653 |-> {<<"u0627", "u0622">>},
         u0654 |-> {<<"u0627", "u0623">>, <<"u0648", "u0624">>, <<"u064A", "u0626">>, <<"u06C1", "u06C2">>,
                    <<"u06D2", "u06D3">>, <<"u06D5", "u06C0">>},
         u0655 |-> {<<"u0627", "u0625">>},
         u093C |-> {<<"u0928", "u0929">>, <<"u0930", "u0931">>, <<"u0933", "u0934">>},
         u09BE |-> {<<"u09C7", "u09CB">>}, u09D7 |-> {<<"u09C7", "u09CC">>}, u0B3E |-> {<<"u0B47", "u0B4B">>},
         u0B56 |-> {<<"u0B47", "u0B48">>}, u0B57 |-> {<<"u0B47", "u0B4C">>},
         u0BBE |-> {<<"u0BC6", "u0BCA">>, <<"u0BC7", "u0BCB">>},
         u0BD7 |-> {<<"u0B92", "u0B94">>, <<"u0BC6", "u0BCC">>}, u0C56 |-> {<<"u0C46", "u0C48">>},
         u0CC2 |-> {<<"u0CC6", "u0CCA">>},
         u0CD5 |-> {<<"u0CBF", "u0CC0">>, <<"u0CC6", "u0CC7">>, <<"u0CCA", "u0CCB">>},
         u0CD6 |-> {<<"u0CC6", "u0CC8">>}, u0D3E |-> {<<"u0D46", "u0D4A">>, <<"u0D47", "u0D4B">>},
         u0D57 |-> {<<"u0D46", "u0D4C">>}, u0DCA |-> {<<"u0DD9", "u0DDA">>, <<"u0DDC", "u0DDD">>},
         u0DCF |-> {<<"u0DD9", "u0DDC">>}, u0DDF |-> {<<"u0DD9", "u0DDE">>}, u102E |-> {<<"u1025", "u1026">>},
         u1161 |-> {<<"u1100", "uAC00">>, <<"u1101", "uAE4C">>, <<"u1102", "uB098">>, <<"u1103", "uB2E4">>,
                    <<"u1104", "uB530">>, <<"u1105", "uB77C">>, <<"u1106", "uB9C8">>, <<"u1107", "uBC14">>,
                    <<"u1108", "uBE60">>, <<"u1109", "uC0AC">>, <<"u110A", "uC2F8">>, <<"u110B", "uC544">>,
                    <<"u110C", "uC790">>, <<"u110D", "uC9DC">>, <<"u110E", "uCC28">>, <<"u110F", "uCE74">>,
                    <<"u1110", "uD0C0">>, <<"u1111", "uD30C">>, <<"u1112", "uD558">>},
         u1162 |-> {<<"u1100", "uAC1C">>, <<"u1101", "uAE68">>, <<"u1102", "uB0B4">>, <<"u1103", "uB300">>,
                    <<"u1104", "uB54C">>, <<"u1105", "uB798">>, <<"u1106", "uB9E4">>, <<"u1107", "uBC30">>,
                    <<"u1108", "uBE7C">>, <<"u1109", "uC0C8">>, <<"u110A", "uC314">>, <<"u110B", "uC560">>,
                    <<"u110C", "uC7AC">>, <<"u110D", "uC9F8">>, <<"u110E", "uCC44">>, <<"u110F", "uCE90">>,
                    <<"u1110", "uD0DC">>, <<"u1111", "uD328">>, <<"u1112", "uD574">>},
         u1163 |-> {<<"u1100", "uAC38">>, <<"u1101", "uAE84">>, <<"u1102", "uB0D0">>, <<"u1103", "uB31C">>,
                    <<"u1104", "uB568">>, <<"u1105", "uB7B4">>, <<"u1106", "uBA00">>, <<"u1107", "uBC4C">>,
                    <<"u1108", "uBE98">>, <<"u1109", "uC0E4">>, <<"u110A", "uC330">>, <<"u110B", "uC57C">>,
                    <<"u110C", "uC7C8">>, <<"u110D", "uCA14">>, <<"u110E", "uCC60">>, <<"u110F", "uCEAC">>,
                    <<"u1110", "uD0F8">>, <<"u1111", "uD344">>, <<"u1112", "uD590">>},
         u1164 |-> {<<"u1100", "uAC54">>, <<"u1101", "uAEA0">>, <<"u1102", "uB0EC">>, <<"u1103", "uB338">>,
                    <<"u1104", "uB584">>, <<"u1105", "uB7D0">>, <<"u1106", "uBA1C">>, <<"u1107", "uBC68">>,
                    <<"u1108", "uBEB4">>, <<"u1109", "uC100">>, <<"u110A", "uC34C">>, <<"u110B", "uC598">>,
                    <<"u110C", "uC7E4">>, <<"u110D", "uCA30">>, <<"u110E", "uCC7C">>, <<"u110F", "uCEC8">>,
                    <<"u1110", "uD114">>, <<"u1111", "uD360">>, <<"u1112", "uD5AC">>},
         u1165 |-> {<<"u1100", "uAC70">>, <<"u1101", "uAEBC">>, <<"u1102", "uB108">>, <<"u1103", "uB354">>,
                    <<"u1104", "uB5A0">>, <<"u1105", "uB7EC">>, <<"u1106", "uBA38">>, <<"u1107", "uBC84">>,
                    <<"u1108", "uBED0">>, <<"u1109", "uC11C">>, <<"u110A", "uC368">>, <<"u110B", "uC5B4">>,
                    <<"u110C", "uC800">>, <<"u110D", "uCA4C">>, <<"u110E", "uCC98">>, <<"u110F", "uCEE4">>,
                    <<"u1110", "uD130">>, <<"u1111", "uD37C">>, <<"u1112", "uD5C8">>},
         u1166 |-> {<<"u1100", "uAC8C">>, <<"u1101", "uAED8">>, <<"u1102", "uB124">>, <<"u1103", "uB370">>,
                    <<"u1104", "uB5BC">>, <<"u1105", "uB808">>, <<"u1106", "uBA54">>, <<"u1107", "uBCA0">>,
                    <<"u1108", "uBEEC">>, <<"u1109", "uC138">>, <<"u110A", "uC384">>, <<"u110B", "uC5D0">>,
                    <<"u110C", "uC81C">>, <<"u110D", "uCA68">>, <<"u110E", "uCCB4">>, <<"u110F", "uCF00">>,
                    <<"u1110", "uD14C">>, <<"u1111", "uD398">>, <<"u1112", "uD5E4">>},
         u1167 |-> {<<"u1100", "uACA8">>, <<"u1101", "uAEF4">>, <<"u1102", "uB140">>, <<"u1103", "uB38C">>,
                    <<"u1104", "uB5D8">>, <<"u1105", "uB824">>, <<"u1106", "uBA70">>, <<"u1107", "uBCBC">>,
                    <<"u1108", "uBF08">>, <<"u1109", "uC154">>, <<"u110A", "uC3A0">>, <<"u110B", "uC5EC">>,
                    <<"u110C", "uC838">>, <<"u110D", "uCA84">>, <<"u110E", "uCCD0">>, <<"u110F", "uCF1C">>,
                    <<"u1110", "uD168">>, <<"u1111", "uD3B4">>, <<"u1112", "uD600">>},
         u1168 |-> {<<"u1100", "uACC4">>, <<"u1101", "uAF10">>, <<"u1102", "uB15C">>, <<"u1103", "uB3A8">>,
                    <<"u1104", "uB5F4">>, <<"u1105", "uB840">>, <<"u1106", "uBA8C">>, <<"u1107", "uBCD8">>,
                    <<"u1108", "uBF24">>, <<"u1109", "uC170">>, <<"u110A", "uC3BC">>, <<"u110B", "uC608">>,
                    <<"u110C", "uC854">>, <<"u110D", "uCAA0">>, <<"u110E", "uCCEC">>, <<"u110F", "uCF38">>,
                    <<"u1110", "uD184">>, <<"u1111", "uD3D0">>, <<"u1112", "uD61C">>},
         u1169 |-> {<<"u1100", "uACE0">>, <<"u1101", "uAF2C">>, <<"u1102", "uB178">>, <<"u1103", "uB3C4">>,
                    <<"u1104", "uB610">>, <<"u1105", "uB85C">>, <<"u1106", "uBAA8">>, <<"u1107", "uBCF4">>,
                    <<"u1108", "uBF40">>, <<"u1109", "uC18C">>, <<"u110A", "uC3D8">>, <<"u110B", "uC624">>,
                    <<"u110C", "uC870">>, <<"u110D", "uCABC">>, <<"u110E", "uCD08">>, <<"u110F", "uCF54">>,
                    <<"u1110", "uD1A0">>, <<"u1111", "uD3EC">>, <<"u1112", "uD638">>},
         u116A |-> {<<"u1100", "uACFC">>, <<"u1101", "uAF48">>, <<"u1102", "uB194">>, <<"u1103", "uB3E0">>,
                    <<"u1104", "uB62C">>, <<"u1105", "uB878">>, <<"u1106", "uBAC4">>, <<"u1107", "uBD10">>,
                    <<"u1108", "uBF5C">>, <<"u1109", "uC1A8">>, <<"u110A", "uC3F4">>, <<"u110B", "uC640">>,
                    <<"u110C", "uC88C">>, <<"u110D", "uCAD8">>, <<"u110E", "uCD24">>, <<"u110F", "uCF70">>,
                    <<"u1110", "uD1BC">>, <<"u1111", "uD408">>, <<"u1112", "uD654">>},
         u116B |-> {<<"u1100", "uAD18">>, <<"u1101", "uAF64">>, <<"u1102", "uB1B0">>, <<"u1103", "uB3FC">>,
                    <<"u1104", "uB648">>, <<"u1105", "uB894">>, <<"u1106", "uBAE0">>, <<"u1107", "uBD2C">>,
                    <<"u1108", "uBF78">>, <<"u1109", "uC1C4">>, <<"u110A", "uC410">>, <<"u110B", "uC65C">>,
                    <<"u110C", "uC8A8">>, <<"u110D", "uCAF4">>, <<"u110E", "uCD40">>, <<"u110F", "uCF8C">>,
                    <<"u1110", "uD1D8">>, <<"u1111", "uD424">>, <<"u1112", "uD670">>},
         u116C |-> {<<"u1100", "uAD34">>, <<"u1101", "uAF80">>, <<"u1102", "uB1CC">>, <<"u1103", "uB418">>,
                    <<"u1104", "uB664">>, <<"u1105", "uB8B0">>, <<"u1106", "uBAFC">>, <<"u1107", "uBD48">>,
                    <<"u1108", "uBF94">>, <<"u1109", "uC1E0">>, <<"u110A", "uC42C">>, <<"u110B", "uC678">>,
                    <<"u110C", "uC8C4">>, <<"u110D", "uCB10">>, <<"u110E", "uCD5C">>, <<"u110F", "uCFA8">>,
                    <<"u1110", "uD1F4">>, <<"u1111", "uD440">>, <<"u1112", "uD68C">>},
         u116D |-> {<<"u1100", "uAD50">>, <<"u1101", "uAF9C">>, <<"u1102", "uB1E8">>, <<"u1103", "uB434">>,
                    <<"u1104", "uB680">>, <<"u1105", "uB8CC">>, <<"u1106", "uBB18">>, <<"u1107", "uBD64">>,
                    <<"u1108", "uBFB0">>, <<"u1109", "uC1FC">>, <<"u110A", "uC448">>, <<"u110B", "uC694">>,
                    <<"u110C", "uC8E0">>, <<"u110D", "uCB2C">>, <<"u110E", "uCD78">>, <<"u110F", "uCFC4">>,
                    <<"u1110", "uD210">>, <<"u1111", "uD45C">>, <<"u1112", "uD6A8">>},
         u116E |-> {<<"u1100", "uAD6C">>, <<"u1101", "uAFB8">>, <<"u1102", "uB204">>, <<"u1103", "uB450">>,
                    <<"u1104", "uB69C">>, <<"u1105", "uB8E8">>, <<"u1106", "uBB34">>, <<"u1107", "uBD80">>,
                    <<"u1108", "uBFCC">>, <<"u1109", "uC218">>, <<"u110A", "uC464">>, <<"u110B", "uC6B0">>,
                    <<"u110C", "uC8FC">>, <<"u110D", "uCB48">>, <<"u110E", "uCD94">>, <<"u110F", "uCFE0">>,
                    <<"u1110", "uD22C">>, <<"u1111", "uD478">>, <<"u1112", "uD6C4">>},
         u116F |-> {<<"u1100", "uAD88">>, <<"u1101", "uAFD4">>, <<"u1102", "uB220">>, <<"u1103", "uB46C">>,
                    <<"u1104", "uB6B8">>, <<"u1105", "uB904">>, <<"u1106", "uBB50">>, <<"u1107", "uBD9C">>,
                    <<"u1108", "uBFE8">>, <<"u1109", "uC234">>, <<"u110A", "uC480">>, <<"u110B", "uC6CC">>,
                    <<"u110C", "uC918">>, <<"u110D", "uCB64">>, <<"u110E", "uCDB0">>, <<"u110F", "uCFFC">>,
                    <<"u1110", "uD248">>, <<"u1111", "uD494">>, <<"u1112", "uD6E0">>},
         u1170 |-> {<<"u1100", "uADA4">>, <<"u1101", "uAFF0">>, <<"u1102", "uB23C">>, <<"u1103", "uB488">>,
                    <<"u1104", "uB6D4">>, <<"u1105", "uB920">>, <<"u1106", "uBB6C">>, <<"u1107", "uBDB8">>,
                    <<"u1108", "uC004">>, <<"u1109", "uC250">>, <<"u110A", "uC49C">>, <<"u110B", "uC6E8">>,
                    <<"u110C", "uC934">>, <<"u110D", "uCB80">>, <<"u110E", "uCDCC">>, <<"u110F", "uD018">>,
                    <<"u1110", "uD264">>, <<"u1111", "uD4B0">>, <<"u1112", "uD6FC">>},
         u1171 |-> {<<"u1100", "uADC0">>, <<"u1101", "uB00C">>, <<"u1102", "uB258">>, <<"u1103", "uB4A4">>,
                    <<"u1104", "uB6F0">>, <<"u1105", "uB93C">>, <<"u1106", "uBB88">>, <<"u1107", "uBDD4">>,
                    <<"u1108", "uC020">>, <<"u1109", "uC26C">>, <<"u110A", "uC4B8">>, <<"u110B", "uC704">>,
                    <<"u110C", "uC950">>, <<"u110D", "uCB9C">>, <<"u110E", "uCDE8">>, <<"u110F", "uD034">>,
                    <<"u1110", "uD280">>, <<"u1111", "uD4CC">>, <<"u1112", "uD718">>},
         u1172 |-> {<<"u1100", "uADDC">>, <<"u1101", "uB028">>, <<"u1102", "uB274">>, <<"u1103", "uB4C0">>,
                    <<"u1104", "uB70C">>, <<"u1105", "uB958">>, <<"u1106", "uBBA4">>, <<"u1107", "uBDF0">>,
                    <<"u1108", "uC03C">>, <<"u1109", "uC288">>, <<"u110A", "uC4D4">>, <<"u110B", "uC720">>,
                    <<"u110C", "uC96C">>, <<"u110D", "uCBB8">>, <<"u110E", "uCE04">>, <<"u110F", "uD050">>,
                    <<"u1110", "uD29C">>, <<"u1111", "uD4E8">>, <<"u1112", "uD734">>},
         u1173 |-> {<<"u1100", "uADF8">>, <<"u1101", "uB044">>, <<"u1102", "uB290">>, <<"u1103", "uB4DC">>,
                    <<"u1104", "uB728">>, <<"u1105", "uB974">>, <<"u1106", "uBBC0">>, <<"u1107", "uBE0C">>,
                    <<"u1108", "uC058">>, <<"u1109", "uC2A4">>, <<"u110A", "uC4F0">>, <<"u110B", "uC73C">>,
                    <<"u110C", "uC988">>, <<"u110D", "uCBD4">>, <<"u110E", "uCE20">>, <<"u110F", "uD06C">>,
                    <<"u1110", "uD2B8">>, <<"u1111", "uD504">>, <<"u1112", "uD750">>},
         u1174 |-> {<<"u1100", "uAE14">>, <<"u1101", "uB060">>, <<"u1102", "uB2AC">>, <<"u1103", "uB4F8">>,
                    <<"u1104", "uB744">>, <<"u1105", "uB990">>, <<"u1106", "uBBDC">>, <<"u1107", "uBE28">>,
                    <<"u1108", "uC074">>, <<"u1109", "uC2C0">>, <<"u110A", "uC50C">>, <<"u110B", "uC758">>,
                    <<"u110C", "uC9A4">>, <<"u110D", "uCBF0">>, <<"u110E", "uCE3C">>, <<"u110F", "uD088">>,
                    <<"u1110", "uD2D4">>, <<"u1111", "uD520">>, <<"u1112", "uD76C">>},
         u1175 |-> {<<"u1100", "uAE30">>, <<"u1101", "uB07C">>, <<"u1102", "uB2C8">>, <<"u1103", "uB514">>,
                    <<"u1104", "uB760">>, <<"u1105", "uB9AC">>, <<"u1106", "uBBF8">>, <<"u1107", "uBE44">>,
                    <<"u1108", "uC090">>, <<"u1109", "uC2DC">>, <<"u110A", "uC528">>, <<"u110B", "uC774">>,
                    <<"u110C", "uC9C0">>, <<"u110D", "uCC0C">>, <<"u110E", "uCE58">>, <<"u110F", "uD0A4">>,
                    <<"u1110", "uD2F0">>, <<"u1111", "uD53C">>, <<"u1112", "uD788">>},
         u11A8 |-> {<<"uAC00", "uAC01">>, <<"uAC1C", "uAC1D">>, <<"uAC38", "uAC39">>, <<"uAC54", "uAC55">>,
                    <<"uAC70", "uAC71">>, <<"uAC8C", "uAC8D">>, <<"uACA8", "uACA9">>, <<"uACC4", "uACC5">>,
                    <<"uACE0", "uACE1">>, <<"uACFC", "uACFD">>, <<"uAD18", "uAD19">>, <<"uAD34", "uAD35">>,
                    <<"uAD50", "uAD51">>, <<"uAD6C", "uAD6D">>, <<"uAD88", "uAD89">>, <<"uADA4", "uADA5">>,
                    <<"uADC0", "uADC1">>, <<"uADDC", "uADDD">>, <<"uADF8", "uADF9">>, <<"uAE14", "uAE15">>,
                    <<"uAE30", "uAE31">>, <<"uAE4C", "uAE4D">>, <<"uAE68", "uAE69">>, <<"uAE84", "uAE85">>,
                    <<"uAEA0", "uAEA1">>, <<"uAEBC", "uAEBD">>, <<"uAED8", "uAED9">>, <<"uAEF4", "uAEF5">>,
                    <<"uAF10", "uAF11">>, <<"uAF2C", "uAF2D">>, <<"uAF48", "uAF49">>, <<"uAF64", "uAF65">>,
                    <<"uAF80", "uAF81">>, <<"uAF9C", "uAF9D">>, <<"uAFB8", "uAFB9">>, <<"uAFD4", "uAFD5">>,
                    <<"uAFF0", "uAFF1">>, <<"uB00C", "uB00D">>, <<"uB028", "uB029">>, <<"uB044", "uB045">>,
                    <<"uB060", "uB061">>, <<"uB07C", "uB07D">>, <<"uB098", "uB099">>, <<"uB0B4", "uB0B5">>,
                    <<"uB0D0", "uB0D1">>, <<"uB0EC", "uB0ED">>, <<"uB108", "uB109">>, <<"uB124", "uB125">>,
                    <<"uB140", "uB141">>, <<"uB15C", "uB15D">>, <<"uB178", "uB179">>, <<"uB194", "uB195">>,
                    <<"uB1B0", "uB1B1">>, <<"uB1CC", "uB1CD">>, <<"uB1E8", "uB1E9">>, <<"uB204", "uB205">>,
                    <<"uB220", "uB221">>, <<"uB23C", "uB23D">>, <<"uB258", "uB259">>, <<"uB274", "uB275">>,
                    <<"uB290", "uB291">>, <<"uB2AC", "uB2AD">>, <<"uB2C8", "uB2C9">>, <<"uB2E4", "uB2E5">>,
                    <<"uB300", "uB301">>, <<"uB31C", "uB31D">>, <<"uB338", "uB339">>, <<"uB354", "uB355">>,
                    <<"uB370", "uB371">>, <<"uB38C", "uB38D">>, <<"uB3A8", "uB3A9">>, <<"uB3C4", "uB3C5">>,
                    <<"uB3E0", "uB3E1">>, <<"uB3FC", "uB3FD">>, <<"uB418", "uB419">>, <<"uB434", "uB435">>,
                    <<"uB450", "uB451">>, <<"uB46C", "uB46D">>, <<"uB488", "uB489">>, <<"uB4A4", "uB4A5">>,
                    <<"uB4C0", "uB4C1">>, <<"uB4DC", "uB4DD">>, <<"uB4F8", "uB4F9">>, <<"uB514", "uB515">>,
                    <<"uB530", "uB531">>, <<"uB54C", "uB54D">>, <<"uB568", "uB569">>, <<"uB584", "uB585">>,
                    <<"uB5A0", "uB5A1">>, <<"uB5BC", "uB5BD">>, <<"uB5D8", "uB5D9">>, <<"uB5F4", "uB5F5">>,
                    <<"uB610", "uB611">>, <<"uB62C", "uB62D">>, <<"uB648", "uB649">>, <<"uB664", "uB665">>,
                    <<"uB680", "uB681">>, <<"uB69C", "uB69D">>, <<"uB6B8", "uB6B9">>, <<"uB6D4", "uB6D5">>,
                    <<"uB6F0", "uB6F1">>, <<"uB70C", "uB70D">>, <<"uB728", "uB729">>, <<"uB744", "uB745">>,
                    <<"uB760", "uB761">>, <<"uB77C", "uB77D">>, <<"uB798", "uB799">>, <<"uB7B4", "uB7B5">>,
                    <<"uB7D0", "uB7D1">>, <<"uB7EC", "uB7ED">>, <<"uB808", "uB809">>, <<"uB824", "uB825">>,
                    <<"uB840", "uB841">>, <<"uB85C", "uB85D">>, <<"uB878", "uB879">>, <<"uB894", "uB895">>,
                    <<"uB8B0", "uB8B1">>, <<"uB8CC", "uB8CD">>, <<"uB8E8", "uB8E9">>, <<"uB904", "uB905">>,
                    <<"uB920", "uB921">>, <<"uB93C", "uB93D">>, <<"uB958", "uB959">>, <<"uB974", "uB975">>,
                    <<"uB990", "uB991">>, <<"uB9AC", "uB9AD">>, <<"uB9C8", "uB9C9">>, <<"uB9E4", "uB9E5">>,
                    <<"uBA00", "uBA01">>, <<"uBA1C", "uBA1D">>, <<"uBA38", "uBA39">>, <<"uBA54", "uBA55">>,
                    <<"uBA70", "uBA71">>, <<"uBA8C", "uBA8D">>, <<"uBAA8", "uBAA9">>, <<"uBAC4", "uBAC5">>,
                    <<"uBAE0", "uBAE1">>, <<"uBAFC", "uBAFD">>, <<"uBB18", "uBB19">>, <<"uBB34", "uBB35">>,
                    <<"uBB50", "uBB51">>, <<"uBB6C", "uBB6D">>, <<"uBB88", "uBB89">>, <<"uBBA4", "uBBA5">>,
                    <<"uBBC0", "uBBC1">>, <<"uBBDC", "uBBDD">>, <<"uBBF8", "uBBF9">>, <<"uBC14", "uBC15">>,
                    <<"uBC30", "uBC31">>, <<"uBC4C", "uBC4D">>, <<"uBC68", "uBC69">>, <<"uBC84", "uBC85">>,
                    <<"uBCA0", "uBCA1">>, <<"uBCBC", "uBCBD">>, <<"uBCD8", "uBCD9">>, <<"uBCF4", "uBCF5">>,
                    <<"uBD10", "uBD11">>, <<"uBD2C", "uBD2D">>, <<"uBD48", "uBD49">>, <<"uBD64", "uBD65">>,
                    <<"uBD80", "uBD81">>, <<"uBD9C", "uBD9D">>, <<"uBDB8", "uBDB9">>, <<"uBDD4", "uBDD5">>,
                    <<"uBDF0", "uBDF1">>, <<"uBE0C", "uBE0D">>, <<"uBE28", "uBE29">>, <<"uBE44", "uBE45">>,
                    <<"uBE60", "uBE61">>, <<"uBE7C", "uBE7D">>, <<"uBE98", "uBE99">>, <<"uBEB4", "uBEB5">>,
                    <<"uBED0", "uBED1">>, <<"uBEEC", "uBEED">>, <<"uBF08", "uBF09">>, <<"uBF24", "uBF25">>,
                    <<"uBF40", "uBF41">>, <<"uBF5C", "uBF5D">>, <<"uBF78", "uBF79">>, <<"uBF94", "uBF95">>,
                    <<"uBFB0", "uBFB1">>, <<"uBFCC", "uBFCD">>, <<"uBFE8", "uBFE9">>, <<"uC004", "uC005">>,
                    <<"uC020", "uC021">>, <<"uC03C", "uC03D">>, <<"uC058", "uC059">>, <<"uC074", "uC075">>,
                    <<"uC090", "uC091">>, <<"uC0AC", "uC0AD">>, <<"uC0C8", "uC0C9">>, <<"uC0E4", "uC0E5">>,
                    <<"uC100", "uC101">>, <<"uC11C", "uC11D">>, <<"uC138", "uC139">>, <<"uC154", "uC155">>,
                    <<"uC170", "uC171">>, <<"uC18C", "uC18D">>, <<"uC1A8", "uC1A9">>, <<"uC1C4", "uC1C5">>,
                    <<"uC1E0", "uC1E1">>, <<"uC1FC", "uC1FD">>, <<"uC218", "uC219">>, <<"uC234", "uC235">>,
                    <<"uC250", "uC251">>, <<"uC26C", "uC26D">>, <<"uC288", "uC289">>, <<"uC2A4", "uC2A5">>,
                    <<"uC2C0", "uC2C1">>, <<"uC2DC", "uC2DD">>, <<"uC2F8", "uC2F9">>, <<"uC314", "uC315">>,
                    <<"uC330", "uC331">>, <<"uC34C", "uC34D">>, <<"uC368", "uC369">>, <<"uC384", "uC385">>,
                    <<"uC3A0", "uC3A1">>, <<"uC3BC", "uC3BD">>, <<"uC3D8", "uC3D9">>, <<"uC3F4", "uC3F5">>,
                    <<"uC410", "uC411">>, <<"uC42C", "uC42D">>, <<"uC448", "uC449">>, <<"uC464", "uC465">>,
                    <<"uC480", "uC481">>, <<"uC49C", "uC49D">>, <<"uC4B8", "uC4B9">>, <<"uC4D4", "uC4D5">>,
                    <<"uC4F0", "uC4F1">>, <<"uC50C", "uC50D">>, <<"uC528", "uC529">>, <<"uC544", "uC545">>,
                    <<"uC560", "uC561">>, <<"uC57C", "uC57D">>, <<"uC598", "uC599">>, <<"uC5B4", "uC5B5">>,
                    <<"uC5D0", "uC5D1">>, <<"uC5EC", "uC5ED">>, <<"uC608", "uC609">>, <<"uC624", "uC625">>,
                    <<"uC640", "uC641">>, <<"uC65C", "uC65D">>, <<"uC678", "uC679">>, <<"uC694", "uC695">>,
                    <<"uC6B0", "uC6B1">>, <<"uC6CC", "uC6CD">>, <<"uC6E8", "uC6E9">>, <<"uC704", "uC705">>,
                    <<"uC720", "uC721">>, <<"uC73C", "uC73D">>, <<"uC758", "uC759">>, <<"uC774", "uC775">>,
                    <<"uC790", "uC791">>, <<"uC7AC", "uC7AD">>, <<"uC7C8", "uC7C9">>, <<"uC7E4", "uC7E5">>,
                    <<"uC800", "uC801">>, <<"uC81C", "uC81D">>, <<"uC838", "uC839">>, <<"uC854", "uC855">>,
                    <<"uC870", "uC871">>, <<"uC88C", "uC88D">>, <<"uC8A8", "uC8A9">>, <<"uC8C4", "uC8C5">>,
                    <<"uC8E0", "uC8E1">>, <<"uC8FC", "uC8FD">>, <<"uC918", "uC919">>, <<"uC934", "uC935">>,
                    <<"uC950", "uC951">>, <<"uC96C", "uC96D">>, <<"uC988", "uC989">>, <<"uC9A4", "uC9A5">>,
                    <<"uC9C0", "uC9C1">>, <<"uC9DC", "uC9DD">>, <<"uC9F8", "uC9F9">>, <<"uCA14", "uCA15">>,
                    <<"uCA30", "uCA31">>, <<"uCA4C", "uCA4D">>, <<"uCA68", "uCA69">>, <<"uCA84", "uCA85">>,
                    <<"uCAA0", "uCAA1">>, <<"uCABC", "uCABD">>, <<"uCAD8", "uCAD9">>, <<"uCAF4", "uCAF5">>,
                    <<"uCB10", "uCB11">>, <<"uCB2C", "uCB2D">>, <<"uCB48", "uCB49">>, <<"uCB64", "uCB65">>,
                    <<"uCB80", "uCB81">>, <<"uCB9C", "uCB9D">>, <<"uCBB8", "uCBB9">>, <<"uCBD4", "uCBD5">>,
                    <<"uCBF0", "uCBF1">>, <<"uCC0C", "uCC0D">>, <<"uCC28", "uCC29">>, <<"uCC44", "uCC45">>,
                    <<"uCC60", "uCC61">>, <<"uCC7C", "uCC7D">>, <<"uCC98", "uCC99">>, <<"uCCB4", "uCCB5">>,
                    <<"uCCD0", "uCCD1">>, <<"uCCEC", "uCCED">>, <<"uCD08", "uCD09">>, <<"uCD24", "uCD25">>,
                    <<"uCD40", "uCD41">>, <<"uCD5C", "uCD5D">>, <<"uCD78", "uCD79">>, <<"uCD94", "uCD95">>,
                    <<"uCDB0", "uCDB1">>, <<"uCDCC", "uCDCD">>, <<"uCDE8", "uCDE9">>, <<"uCE04", "uCE05">>,
                    <<"uCE20", "uCE21">>, <<"uCE3C", "uCE3D">>, <<"uCE58", "uCE59">>, <<"uCE74", "uCE75">>,
                    <<"uCE90", "uCE91">>, <<"uCEAC", "uCEAD">>, <<"uCEC8", "uCEC9">>, <<"uCEE4", "uCEE5">>,
                    <<"uCF00", "uCF01">>, <<"uCF1C", "uCF1D">>, <<"uCF38", "uCF39">>, <<"uCF54", "uCF55">>,
                    <<"uCF70", "uCF71">>, <<"uCF8C", "uCF8D">>, <<"uCFA8", "uCFA9">>, <<"uCFC4", "uCFC5">>,
                    <<"uCFE0", "uCFE1">>, <<"uCFFC", "uCFFD">>, <<"uD018", "uD019">>, <<"uD034", "uD035">>,
                    <<"uD050", "uD051">>, <<"uD06C", "uD06D">>, <<"uD088", "uD089">>, <<"uD0A4", "uD0A5">>,
                    <<"uD0C0", "uD0C1">>, <<"uD0DC", "uD0DD">>, <<"uD0F8", "uD0F9">>, <<"uD114", "uD115">>,
                    <<"uD130", "uD131">>, <<"uD14C", "uD14D">>, <<"uD168", "uD169">>, <<"uD184", "uD185">>,
                    <<"uD1A0", "uD1A1">>, <<"uD1BC", "uD1BD">>, <<"uD1D8", "uD1D9">>, <<"uD1F4", "uD1F5">>,
                    <<"uD210", "uD211">>, <<"uD22C", "uD22D">>, <<"uD248", "uD249">>, <<"uD264", "uD265">>,
                    <<"uD280", "uD281">>, <<"uD29C", "uD29D">>, <<"uD2B8", "uD2B9">>, <<"uD2D4", "uD2D5">>,
                    <<"uD2F0", "uD2F1">>, <<"uD30C", "uD30D">>, <<"uD328", "uD329">>, <<"uD344", "uD345">>,
                    <<"uD360", "uD361">>, <<"uD37C", "uD37D">>, <<"uD398", "uD399">>, <<"uD3B4", "uD3B5">>,
                    <<"uD3D0", "uD3D1">>, <<"uD3EC", "uD3ED">>, <<"uD408", "uD409">>, <<"uD424", "uD425">>,
                    <<"uD440", "uD441">>, <<"uD45C", "uD45D">>, <<"uD478", "uD479">>, <<"uD494", "uD495">>,
                    <<"uD4B0", "uD4B1">>, <<"uD4CC", "uD4CD">>, <<"uD4E8", "uD4E9">>, <<"uD504", "uD505">>,
                    <<"uD520", "uD521">>, <<"uD53C", "uD53D">>, <<"uD558", "uD559">>, <<"uD574", "uD575">>,
                    <<"uD590", "uD591">>, <<"uD5AC", "uD5AD">>, <<"uD5C8", "uD5C9">>, <<"uD5E4", "uD5E5">>,
                    <<"uD600", "uD601">>, <<"uD61C", "uD61D">>, <<"uD638", "uD639">>, <<"uD654", "uD655">>,
                    <<"uD670", "uD671">>, <<"uD68C", "uD68D">>, <<"uD6A8", "uD6A9">>, <<"uD6C4", "uD6C5">>,
                    <<"uD6E0", "uD6E1">>, <<"uD6FC", "uD6FD">>, <<"uD718", "uD719">>, <<"uD734", "uD735">>,
                    <<"uD750", "uD751">>, <<"uD76C", "uD76D">>, <<"uD788", "uD789">>},
         u11A9 |-> {<<"uAC00", "uAC02">>, <<"uAC1C", "uAC1E">>, <<"uAC38", "uAC3A">>, <<"uAC54", "uAC56">>,
                    <<"uAC70", "uAC72">>, <<"uAC8C", "uAC8E">>, <<"uACA8", "uACAA">>, <<"uACC4", "uACC6">>,
                    <<"uACE0", "uACE2">>, <<"uACFC", "uACFE">>, <<"uAD18", "uAD1A">>, <<"uAD34", "uAD36">>,
                    <<"uAD50", "uAD52">>, <<"uAD6C", "uAD6E">>, <<"uAD88", "uAD8A">>, <<"uADA4", "uADA6">>,
                    <<"uADC0", "uADC2">>, <<"uADDC", "uADDE">>, <<"uADF8", "uADFA">>, <<"uAE14", "uAE16">>,
                    <<"uAE30", "uAE32">>, <<"uAE4C", "uAE4E">>, <<"uAE68", "uAE6A">>, <<"uAE84", "uAE86">>,
                    <<"uAEA0", "uAEA2">>, <<"uAEBC", "uAEBE">>, <<"uAED8", "uAEDA">>, <<"uAEF4", "uAEF6">>,
                    <<"uAF10", "uAF12">>, <<"uAF2C", "uAF2E">>, <<"uAF48", "uAF4A">>, <<"uAF64", "uAF66">>,
                    <<"uAF80", "uAF82">>, <<"uAF9C", "uAF9E">>, <<"uAFB8", "uAFBA">>, <<"uAFD4", "uAFD6">>,
                    <<"uAFF0", "uAFF2">>, <<"uB00C", "uB00E">>, <<"uB028", "uB02A">>, <<"uB044", "uB046">>,
                    <<"uB060", "uB062">>, <<"uB07C", "uB07E">>, <<"uB098", "uB09A">>, <<"uB0B4", "uB0B6">>,
                    <<"uB0D0", "uB0D2">>, <<"uB0EC", "uB0EE">>, <<"uB108", "uB10A">>, <<"uB124", "uB126">>,
                    <<"uB140", "uB142">>, <<"uB15C", "uB15E">>, <<"uB178", "uB17A">>, <<"uB194", "uB196">>,
                    <<"uB1B0", "uB1B2">>, <<"uB1CC", "uB1CE">>, <<"uB1E8", "uB1EA">>, <<"uB204", "uB206">>,
                    <<"uB220", "uB222">>, <<"uB23C", "uB23E">>, <<"uB258", "uB25A">>, <<"uB274", "uB276">>,
                    <<"uB290", "uB292">>, <<"uB2AC", "uB2AE">>, <<"uB2C8", "uB2CA">>, <<"uB2E4", "uB2E6">>,
                    <<"uB300", "uB302">>, <<"uB31C", "uB31E">>, <<"uB338", "uB33A">>, <<"uB354", "uB356">>,
                    <<"uB370", "uB372">>, <<"uB38C", "uB38E">>, <<"uB3A8", "uB3AA">>, <<"uB3C4", "uB3C6">>,
                    <<"uB3E0", "uB3E2">>, <<"uB3FC", "uB3FE">>, <<"uB418", "uB41A">>, <<"uB434", "uB436">>,
                    <<"uB450", "uB452">>, <<"uB46C", "uB46E">>, <<"uB488", "uB48A">>, <<"uB4A4", "uB4A6">>,
                    <<"uB4C0", "uB4C2">>, <<"uB4DC", "uB4DE">>, <<"uB4F8", "uB4FA">>, <<"uB514", "uB516">>,
                    <<"uB530", "uB532">>, <<"uB54C", "uB54E">>, <<"uB568", "uB56A">>, <<"uB584", "uB586">>,
                    <<"uB5A0", "uB5A2">>, <<"uB5BC", "uB5BE">>, <<"uB5D8", "uB5DA">>, <<"uB5F4", "uB5F6">>,
                    <<"uB610", "uB612">>, <<"uB62C", "uB62E">>, <<"uB648", "uB64A">>, <<"uB664", "uB666">>,
                    <<"uB680", "uB682">>, <<"uB69C", "uB69E">>, <<"uB6B8", "uB6BA">>, <<"uB6D4", "uB6D6">>,
                    <<"uB6F0", "uB6F2">>, <<"uB70C", "uB70E">>, <<"uB728", "uB72A">>, <<"uB744", "uB746">>,
                    <<"uB760", "uB762">>, <<"uB77C", "uB77E">>, <<"uB798", "uB79A">>, <<"uB7B4", "uB7B6">>,
                    <<"uB7D0", "uB7D2">>, <<"uB7EC", "uB7EE">>, <<"uB808", "uB80A">>, <<"uB824", "uB826">>,
                    <<"uB840", "uB842">>, <<"uB85C", "uB85E">>, <<"uB878", "uB87A">>, <<"uB894", "uB896">>,
                    <<"uB8B0", "uB8B2">>, <<"uB8CC", "uB8CE">>, <<"uB8E8", "uB8EA">>, <<"uB904", "uB906">>,
                    <<"uB920", "uB922">>, <<"uB93C", "uB93E">>, <<"uB958", "uB95A">>, <<"uB974", "uB976">>,
                    <<"uB990", "uB992">>, <<"uB9AC", "uB9AE">>, <<"uB9C8", "uB9CA">>, <<"uB9E4", "uB9E6">>,
                    <<"uBA00", "uBA02">>, <<"uBA1C", "uBA1E">>, <<"uBA38", "uBA3A">>, <<"uBA54", "uBA56">>,
                    <<"uBA70", "uBA72">>, <<"uBA8C", "uBA8E">>, <<"uBAA8", "uBAAA">>, <<"uBAC4", "uBAC6">>,
                    <<"uBAE0", "uBAE2">>, <<"uBAFC", "uBAFE">>, <<"uBB18", "uBB1A">>, <<"uBB34", "uBB36">>,
                    <<"uBB50", "uBB52">>, <<"uBB6C", "uBB6E">>, <<"uBB88", "uBB8A">>, <<"uBBA4", "uBBA6">>,
                    <<"uBBC0", "uBBC2">>, <<"uBBDC", "uBBDE">>, <<"uBBF8", "uBBFA">>, <<"uBC14", "uBC16">>,
                    <<"uBC30", "uBC32">>, <<"uBC4C", "uBC4E">>, <<"uBC68", "uBC6A">>, <<"uBC84", "uBC86">>,
                    <<"uBCA0", "uBCA2">>, <<"uBCBC", "uBCBE">>, <<"uBCD8", "uBCDA">>, <<"uBCF4", "uBCF6">>,
                    <<"uBD10", "uBD12">>, <<"uBD2C", "uBD2E">>, <<"uBD48", "uBD4A">>, <<"uBD64", "uBD66">>,
                    <<"uBD80", "uBD82">>, <<"uBD9C", "uBD9E">>, <<"uBDB8", "uBDBA">>, <<"uBDD4", "uBDD6">>,
                    <<"uBDF0", "uBDF2">>, <<"uBE0C", "uBE0E">>, <<"uBE28", "uBE2A">>, <<"uBE44", "uBE46">>,
                    <<"uBE60", "uBE62">>, <<"uBE7C", "uBE7E">>, <<"uBE98", "uBE9A">>, <<"uBEB4", "uBEB6">>,
                    <<"uBED0", "uBED2">>, <<"uBEEC", "uBEEE">>, <<"uBF08", "uBF0A">>, <<"uBF24", "uBF26">>,
                    <<"uBF40", "uBF42">>, <<"uBF5C", "uBF5E">>, <<"uBF78", "uBF7A">>, <<"uBF94", "uBF96">>,
                    <<"uBFB0", "uBFB2">>, <<"uBFCC", "uBFCE">>, <<"uBFE8", "uBFEA">>, <<"uC004", "uC006">>,
                    <<"uC020", "uC022">>, <<"uC03C", "uC03E">>, <<"uC058", "uC05A">>, <<"uC074", "uC076">>,
                    <<"uC090", "uC092">>, <<"uC0AC", "uC0AE">>, <<"uC0C8", "uC0CA">>, <<"uC0E4", "uC0E6">>,
                    <<"uC100", "uC102">>, <<"uC11C", "uC11E">>, <<"uC138", "uC13A">>, <<"uC154", "uC156">>,
                    <<"uC170", "uC172">>, <<"uC18C", "uC18E">>, <<"uC1A8", "uC1AA">>, <<"uC1C4", "uC1C6">>,
                    <<"uC1E0", "uC1E2">>, <<"uC1FC", "uC1FE">>, <<"uC218", "uC21A">>, <<"uC234", "uC236">>,
                    <<"uC250", "uC252">>, <<"uC26C", "uC26E">>, <<"uC288", "uC28A">>, <<"uC2A4", "uC2A6">>,
                    <<"uC2C0", "uC2C2">>, <<"uC2DC", "uC2DE">>, <<"uC2F8", "uC2FA">>, <<"uC314", "uC316">>,
                    <<"uC330", "uC332">>, <<"uC34C", "uC34E">>, <<"uC368", "uC36A">>, <<"uC384", "uC386">>,
                    <<"uC3A0", "uC3A2">>, <<"uC3BC", "uC3BE">>, <<"uC3D8", "uC3DA">>, <<"uC3F4", "uC3F6">>,
                    <<"uC410", "uC412">>, <<"uC42C", "uC42E">>, <<"uC448", "uC44A">>, <<"uC464", "uC466">>,
                    <<"uC480", "uC482">>, <<"uC49C", "uC49E">>, <<"uC4B8", "uC4BA">>, <<"uC4D4", "uC4D6">>,
                    <<"uC4F0", "uC4F2">>, <<"uC50C", "uC50E">>, <<"uC528", "uC52A">>, <<"uC544", "uC546">>,
                    <<"uC560", "uC562">>, <<"uC57C", "uC57E">>, <<"uC598", "uC59A">>, <<"uC5B4", "uC5B6">>,
                    <<"uC5D0", "uC5D2">>, <<"uC5EC", "uC5EE">>, <<"uC608", "uC60A">>, <<"uC624", "uC626">>,
                    <<"uC640", "uC642">>, <<"uC65C", "uC65E">>, <<"uC678", "uC67A">>, <<"uC694", "uC696">>,
                    <<"uC6B0", "uC6B2">>, <<"uC6CC", "uC6CE">>, <<"uC6E8", "uC6EA">>, <<"uC704", "uC706">>,
                    <<"uC720", "uC722">>, <<"uC73C", "uC73E">>, <<"uC758", "uC75A">>, <<"uC774", "uC776">>,
                    <<"uC790", "uC792">>, <<"uC7AC", "uC7AE">>, <<"uC7C8", "uC7CA">>, <<"uC7E4", "uC7E6">>,
                    <<"uC800", "uC802">>, <<"uC81C", "uC81E">>, <<"uC838", "uC83A">>, <<"uC854", "uC856">>,
                    <<"uC870", "uC872">>, <<"uC88C", "uC88E">>, <<"uC8A8", "uC8AA">>, <<"uC8C4", "uC8C6">>,
                    <<"uC8E0", "uC8E2">>, <<"uC8FC", "uC8FE">>, <<"uC918", "uC91A">>, <<"uC934", "uC936">>,
                    <<"uC950", "uC952">>, <<"uC96C", "uC96E">>, <<"uC988", "uC98A">>, <<"uC9A4", "uC9A6">>,
                    <<"uC9C0", "uC9C2">>, <<"uC9DC", "uC9DE">>, <<"uC9F8", "uC9FA">>, <<"uCA14", "uCA16">>,
                    <<"uCA30", "uCA32">>, <<"uCA4C", "uCA4E">>, <<"uCA68", "uCA6A">>, <<"uCA84", "uCA86">>,
                    <<"uCAA0", "uCAA2">>, <<"uCABC", "uCABE">>, <<"uCAD8", "uCADA">>, <<"uCAF4", "uCAF6">>,
                    <<"uCB10", "uCB12">>, <<"uCB2C", "uCB2E">>, <<"uCB48", "uCB4A">>, <<"uCB64", "uCB66">>,
                    <<"uCB80", "uCB82">>, <<"uCB9C", "uCB9E">>, <<"uCBB8", "uCBBA">>, <<"uCBD4", "uCBD6">>,
                    <<"uCBF0", "uCBF2">>, <<"uCC0C", "uCC0E">>, <<"uCC28", "uCC2A">>, <<"uCC44", "uCC46">>,
                    <<"uCC60", "uCC62">>, <<"uCC7C", "uCC7E">>, <<"uCC98", "uCC9A">>, <<"uCCB4", "uCCB6">>,
                    <<"uCCD0", "uCCD2">>, <<"uCCEC", "uCCEE">>, <<"uCD08", "uCD0A">>, <<"uCD24", "uCD26">>,
                    <<"uCD40", "uCD42">>, <<"uCD5C", "uCD5E">>, <<"uCD78", "uCD7A">>, <<"uCD94", "uCD96">>,
                    <<"uCDB0", "uCDB2">>, <<"uCDCC", "uCDCE">>, <<"uCDE8", "uCDEA">>, <<"uCE04", "uCE06">>,
                    <<"uCE20", "uCE22">>, <<"uCE3C", "uCE3E">>, <<"uCE58", "uCE5A">>, <<"uCE74", "uCE76">>,
                    <<"uCE90", "uCE92">>, <<"uCEAC", "uCEAE">>, <<"uCEC8", "uCECA">>, <<"uCEE4", "uCEE6">>,
                    <<"uCF00", "uCF02">>, <<"uCF1C", "uCF1E">>, <<"uCF38", "uCF3A">>, <<"uCF54", "uCF56">>,
                    <<"uCF70", "uCF72">>, <<"uCF8C", "uCF8E">>, <<"uCFA8", "uCFAA">>, <<"uCFC4", "uCFC6">>,
                    <<"uCFE0", "uCFE2">>, <<"uCFFC", "uCFFE">>, <<"uD018", "uD01A">>, <<"uD034", "uD036">>,
                    <<"uD050", "uD052">>, <<"uD06C", "uD06E">>, <<"uD088", "uD08A">>, <<"uD0A4", "uD0A6">>,
                    <<"uD0C0", "uD0C2">>, <<"uD0DC", "uD0DE">>, <<"uD0F8", "uD0FA">>, <<"uD114", "uD116">>,
                    <<"uD130", "uD132">>, <<"uD14C", "uD14E">>, <<"uD168", "uD16A">>, <<"uD184", "uD186">>,
                    <<"uD1A0", "uD1A2">>, <<"uD1BC", "uD1BE">>, <<"uD1D8", "uD1DA">>, <<"uD1F4", "uD1F6">>,
                    <<"uD210", "uD212">>, <<"uD22C", "uD22E">>, <<"uD248", "uD24A">>, <<"uD264", "uD266">>,
                    <<"uD280", "uD282">>, <<"uD29C", "uD29E">>, <<"uD2B8", "uD2BA">>, <<"uD2D4", "uD2D6">>,
                    <<"uD2F0", "uD2F2">>, <<"uD30C", "uD30E">>, <<"uD328", "uD32A">>, <<"uD344", "uD346">>,
                    <<"uD360", "uD362">>, <<"uD37C", "uD37E">>, <<"uD398", "uD39A">>, <<"uD3B4", "uD3B6">>,
                    <<"uD3D0", "uD3D2">>, <<"uD3EC", "uD3EE">>, <<"uD408", "uD40A">>, <<"uD424", "uD426">>,
                    <<"uD440", "uD442">>, <<"uD45C", "uD45E">>, <<"uD478", "uD47A">>, <<"uD494", "uD496">>,
                    <<"uD4B0", "uD4B2">>, <<"uD4CC", "uD4CE">>, <<"uD4E8", "uD4EA">>, <<"uD504", "uD506">>,
                    <<"uD520", "uD522">>, <<"uD53C", "uD53E">>, <<"uD558", "uD55A">>, <<"uD574", "uD576">>,
                    <<"uD590", "uD592">>, <<"uD5AC", "uD5AE">>, <<"uD5C8", "uD5CA">>, <<"uD5E4", "uD5E6">>,
                    <<"uD600", "uD602">>, <<"uD61C", "uD61E">>, <<"uD638", "uD63A">>, <<"uD654", "uD656">>,
                    <<"uD670", "uD672">>, <<"uD68C", "uD68E">>, <<"uD6A8", "uD6AA">>, <<"uD6C4", "uD6C6">>,
                    <<"uD6E0", "uD6E2">>, <<"uD6FC", "uD6FE">>, <<"uD718", "uD71A">>, <<"uD734", "uD736">>,
                    <<"uD750", "uD752">>, <<"uD76C", "uD76E">>, <<"uD788", "uD78A">>},
         u11AA |-> {<<"uAC00", "uAC03">>, <<"uAC1C", "uAC1F">>, <<"uAC38", "uAC3B">>, <<"uAC54", "uAC57">>,
                    <<"uAC70", "uAC73">>, <<"uAC8C", "uAC8F">>, <<"uACA8", "uACAB">>, <<"uACC4", "uACC7">>,
                    <<"uACE0", "uACE3">>, <<"uACFC", "uACFF">>, <<"uAD18", "uAD1B">>, <<"uAD34", "uAD37">>,
                    <<"uAD50", "uAD53">>, <<"uAD6C", "uAD6F">>, <<"uAD88", "uAD8B">>, <<"uADA4", "uADA7">>,
                    <<"uADC0", "uADC3">>, <<"uADDC", "uADDF">>, <<"uADF8", "uADFB">>, <<"uAE14", "uAE17">>,
                    <<"uAE30", "uAE33">>, <<"uAE4C", "uAE4F">>, <<"uAE68", "uAE6B">>, <<"uAE84", "uAE87">>,
                    <<"uAEA0", "uAEA3">>, <<"uAEBC", "uAEBF">>, <<"uAED8", "uAEDB">>, <<"uAEF4", "uAEF7">>,
                    <<"uAF10", "uAF13">>, <<"uAF2C", "uAF2F">>, <<"uAF48", "uAF4B">>, <<"uAF64", "uAF67">>,
                    <<"uAF80", "uAF83">>, <<"uAF9C", "uAF9F">>, <<"uAFB8", "uAFBB">>, <<"uAFD4", "uAFD7">>,
                    <<"uAFF0", "uAFF3">>, <<"uB00C", "uB00F">>, <<"uB028", "uB02B">>, <<"uB044", "uB047">>,
                    <<"uB060", "uB063">>, <<"uB07C", "uB07F">>, <<"uB098", "uB09B">>, <<"uB0B4", "uB0B7">>,
                    <<"uB0D0", "uB0D3">>, <<"uB0EC", "uB0EF">>, <<"uB108", "uB10B">>, <<"uB124", "uB127">>,
                    <<"uB140", "uB143">>, <<"uB15C", "uB15F">>, <<"uB178", "uB17B">>, <<"uB194", "uB197">>,
                    <<"uB1B0", "uB1B3">>, <<"uB1CC", "uB1CF">>, <<"uB1E8", "uB1EB">>, <<"uB204", "uB207">>,
                    <<"uB220", "uB223">>, <<"uB23C", "uB23F">>, <<"uB258", "uB25B">>, <<"uB274", "uB277">>,
                    <<"uB290", "uB293">>, <<"uB2AC", "uB2AF">>, <<"uB2C8", "uB2CB">>, <<"uB2E4", "uB2E7">>,
                    <<"uB300", "uB303">>, <<"uB31C", "uB31F">>, <<"uB338", "uB33B">>, <<"uB354", "uB357">>,
                    <<"uB370", "uB373">>, <<"uB38C", "uB38F">>, <<"uB3A8", "uB3AB">>, <<"uB3C4", "uB3C7">>,
                    <<"uB3E0", "uB3E3">>, <<"uB3FC", "uB3FF">>, <<"uB418", "uB41B">>, <<"uB434", "uB437">>,
                    <<"uB450", "uB453">>, <<"uB46C", "uB46F">>, <<"uB488", "uB48B">>, <<"uB4A4", "uB4A7">>,
                    <<"uB4C0", "uB4C3">>, <<"uB4DC", "uB4DF">>, <<"uB4F8", "uB4FB">>, <<"uB514", "uB517">>,
                    <<"uB530", "uB533">>, <<"uB54C", "uB54F">>, <<"uB568", "uB56B">>, <<"uB584", "uB587">>,
                    <<"uB5A0", "uB5A3">>, <<"uB5BC", "uB5BF">>, <<"uB5D8", "uB5DB">>, <<"uB5F4", "uB5F7">>,
                    <<"uB610", "uB613">>, <<"uB62C", "uB62F">>, <<"uB648", "uB64B">>, <<"uB664", "uB667">>,
                    <<"uB680", "uB683">>, <<"uB69C", "uB69F">>, <<"uB6B8", "uB6BB">>, <<"uB6D4", "uB6D7">>,
                    <<"uB6F0", "uB6F3">>, <<"uB70C", "uB70F">>, <<"uB728", "uB72B">>, <<"uB744", "uB747">>,
                    <<"uB760", "uB763">>, <<"uB77C", "uB77F">>, <<"uB798", "uB79B">>, <<"uB7B4", "uB7B7">>,
                    <<"uB7D0", "uB7D3">>, <<"uB7EC", "uB7EF">>, <<"uB808", "uB80B">>, <<"uB824", "uB827">>,
                    <<"uB840", "uB843">>, <<"uB85C", "uB85F">>, <<"uB878", "uB87B">>, <<"uB894", "uB897">>,
                    <<"uB8B0", "uB8B3">>, <<"uB8CC", "uB8CF">>, <<"uB8E8", "uB8EB">>, <<"uB904", "uB907">>,
                    <<"uB920", "uB923">>, <<"uB93C", "uB93F">>, <<"uB958", "uB95B">>, <<"uB974", "uB977">>,
                    <<"uB990", "uB993">>, <<"uB9AC", "uB9AF">>, <<"uB9C8", "uB9CB">>, <<"uB9E4", "uB9E7">>,
                    <<"uBA00", "uBA03">>, <<"uBA1C", "uBA1F">>, <<"uBA38", "uBA3B">>, <<"uBA54", "uBA57">>,
                    <<"uBA70", "uBA73">>, <<"uBA8C", "uBA8F">>, <<"uBAA8", "uBAAB">>, <<"uBAC4", "uBAC7">>,
                    <<"uBAE0", "uBAE3">>, <<"uBAFC", "uBAFF">>, <<"uBB18", "uBB1B">>, <<"uBB34", "uBB37">>,
                    <<"uBB50", "uBB53">>, <<"uBB6C", "uBB6F">>, <<"uBB88", "uBB8B">>, <<"uBBA4", "uBBA7">>,
                    <<"uBBC0", "uBBC3">>, <<"uBBDC", "uBBDF">>, <<"uBBF8", "uBBFB">>, <<"uBC14", "uBC17">>,
                    <<"uBC30", "uBC33">>, <<"uBC4C", "uBC4F">>, <<"uBC68", "uBC6B">>, <<"uBC84", "uBC87">>,
                    <<"uBCA0", "uBCA3">>, <<"uBCBC", "uBCBF">>, <<"uBCD8", "uBCDB">>, <<"uBCF4", "uBCF7">>,
                    <<"uBD10", "uBD13">>, <<"uBD2C", "uBD2F">>, <<"uBD48", "uBD4B">>, <<"uBD64", "uBD67">>,
                    <<"uBD80", "uBD83">>, <<"uBD9C", "uBD9F">>, <<"uBDB8", "uBDBB">>, <<"uBDD4", "uBDD7">>,
                    <<"uBDF0", "uBDF3">>, <<"uBE0C", "uBE0F">>, <<"uBE28", "uBE2B">>, <<"uBE44", "uBE47">>,
                    <<"uBE60", "uBE63">>, <<"uBE7C", "uBE7F">>, <<"uBE98", "uBE9B">>, <<"uBEB4", "uBEB7">>,
                    <<"uBED0", "uBED3">>, <<"uBEEC", "uBEEF">>, <<"uBF08", "uBF0B">>, <<"uBF24", "uBF27">>,
                    <<"uBF40", "uBF43">>, <<"uBF5C", "uBF5F">>, <<"uBF78", "uBF7B">>, <<"uBF94", "uBF97">>,
                    <<"uBFB0", "uBFB3">>, <<"uBFCC", "uBFCF">>, <<"uBFE8", "uBFEB">>, <<"uC004", "uC007">>,
                    <<"uC020", "uC023">>, <<"uC03C", "uC03F">>, <<"uC058", "uC05B">>, <<"uC074", "uC077">>,
                    <<"uC090", "uC093">>, <<"uC0AC", "uC0AF">>, <<"uC0C8", "uC0CB">>, <<"uC0E4", "uC0E7">>,
                    <<"uC100", "uC103">>, <<"uC11C", "uC11F">>, <<"uC138", "uC13B">>, <<"uC154", "uC157">>,
                    <<"uC170", "uC173">>, <<"uC18C", "uC18F">>, <<"uC1A8", "uC1AB">>, <<"uC1C4", "uC1C7">>,
                    <<"uC1E0", "uC1E3">>, <<"uC1FC", "uC1FF">>, <<"uC218", "uC21B">>, <<"uC234", "uC237">>,
                    <<"uC250", "uC253">>, <<"uC26C", "uC26F">>, <<"uC288", "uC28B">>, <<"uC2A4", "uC2A7">>,
                    <<"uC2C0", "uC2C3">>, <<"uC2DC", "uC2DF">>, <<"uC2F8", "uC2FB">>, <<"uC314", "uC317">>,
                    <<"uC330", "uC333">>, <<"uC34C", "uC34F">>, <<"uC368", "uC36B">>, <<"uC384", "uC387">>,
                    <<"uC3A0", "uC3A3">>, <<"uC3BC", "uC3BF">>, <<"uC3D8", "uC3DB">>, <<"uC3F4", "uC3F7">>,
                    <<"uC410", "uC413">>, <<"uC42C", "uC42F">>, <<"uC448", "uC44B">>, <<"uC464", "uC467">>,
                    <<"uC480", "uC483">>, <<"uC49C", "uC49F">>, <<"uC4B8", "uC4BB">>, <<"uC4D4", "uC4D7">>,
                    <<"uC4F0", "uC4F3">>, <<"uC50C", "uC50F">>, <<"uC528", "uC52B">>, <<"uC544", "uC547">>,
                    <<"uC560", "uC563">>, <<"uC57C", "uC57F">>, <<"uC598", "uC59B">>, <<"uC5B4", "uC5B7">>,
                    <<"uC5D0", "uC5D3">>, <<"uC5EC", "uC5EF">>, <<"uC608", "uC60B">>, <<"uC624", "uC627">>,
                    <<"uC640", "uC643">>, <<"uC65C", "uC65F">>, <<"uC678", "uC67B">>, <<"uC694", "uC697">>,
                    <<"uC6B0", "uC6B3">>, <<"uC6CC", "uC6CF">>, <<"uC6E8", "uC6EB">>, <<"uC704", "uC707">>,
                    <<"uC720", "uC723">>, <<"uC73C", "uC73F">>, <<"uC758", "uC75B">>, <<"uC774", "uC777">>,
                    <<"uC790", "uC793">>, <<"uC7AC", "uC7AF">>, <<"uC7C8", "uC7CB">>, <<"uC7E4", "uC7E7">>,
                    <<"uC800", "uC803">>, <<"uC81C", "uC81F">>, <<"uC838", "uC83B">>, <<"uC854", "uC857">>,
                    <<"uC870", "uC873">>, <<"uC88C", "uC88F">>, <<"uC8A8", "uC8AB">>, <<"uC8C4", "uC8C7">>,
                    <<"uC8E0", "uC8E3">>, <<"uC8FC", "uC8FF">>, <<"uC918", "uC91B">>, <<"uC934", "uC937">>,
                    <<"uC950", "uC953">>, <<"uC96C", "uC96F">>, <<"uC988", "uC98B">>, <<"uC9A4", "uC9A7">>,
                    <<"uC9C0", "uC9C3">>, <<"uC9DC", "uC9DF">>, <<"uC9F8", "uC9FB">>, <<"uCA14", "uCA17">>,
                    <<"uCA30", "uCA33">>, <<"uCA4C", "uCA4F">>, <<"uCA68", "uCA6B">>, <<"uCA84", "uCA87">>,
                    <<"uCAA0", "uCAA3">>, <<"uCABC", "uCABF">>, <<"uCAD8", "uCADB">>, <<"uCAF4", "uCAF7">>,
                    <<"uCB10", "uCB13">>, <<"uCB2C", "uCB2F">>, <<"uCB48", "uCB4B">>, <<"uCB64", "uCB67">>,
                    <<"uCB80", "uCB83">>, <<"uCB9C", "uCB9F">>, <<"uCBB8", "uCBBB">>, <<"uCBD4", "uCBD7">>,
                    <<"uCBF0", "uCBF3">>, <<"uCC0C", "uCC0F">>, <<"uCC28", "uCC2B">>, <<"uCC44", "uCC47">>,
                    <<"uCC60", "uCC63">>, <<"uCC7C", "uCC7F">>, <<"uCC98", "uCC9B">>, <<"uCCB4", "uCCB7">>,
                    <<"uCCD0", "uCCD3">>, <<"uCCEC", "uCCEF">>, <<"uCD08", "uCD0B">>, <<"uCD24", "uCD27">>,
                    <<"uCD40", "uCD43">>, <<"uCD5C", "uCD5F">>, <<"uCD78", "uCD7B">>, <<"uCD94", "uCD97">>,
                    <<"uCDB0", "uCDB3">>, <<"uCDCC", "uCDCF">>, <<"uCDE8", "uCDEB">>, <<"uCE04", "uCE07">>,
                    <<"uCE20", "uCE23">>, <<"uCE3C", "uCE3F">>, <<"uCE58", "uCE5B">>, <<"uCE74", "uCE77">>,
                    <<"uCE90", "uCE93">>, <<"uCEAC", "uCEAF">>, <<"uCEC8", "uCECB">>, <<"uCEE4", "uCEE7">>,
                    <<"uCF00", "uCF03">>, <<"uCF1C", "uCF1F">>, <<"uCF38", "uCF3B">>, <<"uCF54", "uCF57">>,
                    <<"uCF70", "uCF73">>, <<"uCF8C", "uCF8F">>, <<"uCFA8", "uCFAB">>, <<"uCFC4", "uCFC7">>,
                    <<"uCFE0", "uCFE3">>, <<"uCFFC", "uCFFF">>, <<"uD018", "uD01B">>, <<"uD034", "uD037">>,
                    <<"uD050", "uD053">>, <<"uD06C", "uD06F">>, <<"uD088", "uD08B">>, <<"uD0A4", "uD0A7">>,
                    <<"uD0C0", "uD0C3">>, <<"uD0DC", "uD0DF">>, <<"uD0F8", "uD0FB">>, <<"uD114", "uD117">>,
                    <<"uD130", "uD133">>, <<"uD14C", "uD14F">>, <<"uD168", "uD16B">>, <<"uD184", "uD187">>,
                    <<"uD1A0", "uD1A3">>, <<"uD1BC", "uD1BF">>, <<"uD1D8", "uD1DB">>, <<"uD1F4", "uD1F7">>,
                    <<"uD210", "uD213">>, <<"uD22C", "uD22F">>, <<"uD248", "uD24B">>, <<"uD264", "uD267">>,
                    <<"uD280", "uD283">>, <<"uD29C", "uD29F">>, <<"uD2B8", "uD2BB">>, <<"uD2D4", "uD2D7">>,
                    <<"uD2F0", "uD2F3">>, <<"uD30C", "uD30F">>, <<"uD328", "uD32B">>, <<"uD344", "uD347">>,
                    <<"uD360", "uD363">>, <<"uD37C", "uD37F">>, <<"uD398", "uD39B">>, <<"uD3B4", "uD3B7">>,
                    <<"uD3D0", "uD3D3">>, <<"uD3EC", "uD3EF">>, <<"uD408", "uD40B">>, <<"uD424", "uD427">>,
                    <<"uD440", "uD443">>, <<"uD45C", "uD45F">>, <<"uD478", "uD47B">>, <<"uD494", "uD497">>,
                    <<"uD4B0", "uD4B3">>, <<"uD4CC", "uD4CF">>, <<"uD4E8", "uD4EB">>, <<"uD504", "uD507">>,
                    <<"uD520", "uD523">>, <<"uD53C", "uD53F">>, <<"uD558", "uD55B">>, <<"uD574", "uD577">>,
                    <<"uD590", "uD593">>, <<"uD5AC", "uD5AF">>, <<"uD5C8", "uD5CB">>, <<"uD5E4", "uD5E7">>,
                    <<"uD600", "uD603">>, <<"uD61C", "uD61F">>, <<"uD638", "uD63B">>, <<"uD654", "uD657">>,
                    <<"uD670", "uD673">>, <<"uD68C", "uD68F">>, <<"uD6A8", "uD6AB">>, <<"uD6C4", "uD6C7">>,
                    <<"uD6E0", "uD6E3">>, <<"uD6FC", "uD6FF">>, <<"uD718", "uD71B">>, <<"uD734", "uD737">>,
                    <<"uD750", "uD753">>, <<"uD76C", "uD76F">>, <<"uD788", "uD78B">>},
         u11AB |-> {<<"uAC00", "uAC04">>, <<"uAC1C", "uAC20">>, <<"uAC38", "uAC3C">>, <<"uAC54", "uAC58">>,
                    <<"uAC70", "uAC74">>, <<"uAC8C", "uAC90">>, <<"uACA8", "uACAC">>, <<"uACC4", "uACC8">>,
                    <<"uACE0", "uACE4">>, <<"uACFC", "uAD00">>, <<"uAD18", "uAD1C">>, <<"uAD34", "uAD38">>,
                    <<"uAD50", "uAD54">>, <<"uAD6C", "uAD70">>, <<"uAD88", "uAD8C">>, <<"uADA4", "uADA8">>,
                    <<"uADC0", "uADC4">>, <<"uADDC", "uADE0">>, <<"uADF8", "uADFC">>, <<"uAE14", "uAE18">>,
                    <<"uAE30", "uAE34">>, <<"uAE4C", "uAE50">>, <<"uAE68", "uAE6C">>, <<"uAE84", "uAE88">>,
                    <<"uAEA0", "uAEA4">>, <<"uAEBC", "uAEC0">>, <<"uAED8", "uAEDC">>, <<"uAEF4", "uAEF8">>,
                    <<"uAF10", "uAF14">>, <<"uAF2C", "uAF30">>, <<"uAF48", "uAF4C">>, <<"uAF64", "uAF68">>,
                    <<"uAF80", "uAF84">>, <<"uAF9C", "uAFA0">>, <<"uAFB8", "uAFBC">>, <<"uAFD4", "uAFD8">>,
                    <<"uAFF0", "uAFF4">>, <<"uB00C", "uB010">>, <<"uB028", "uB02C">>, <<"uB044", "uB048">>,
                    <<"uB060", "uB064">>, <<"uB07C", "uB080">>, <<"uB098", "uB09C">>, <<"uB0B4", "uB0B8">>,
                    <<"uB0D0", "uB0D4">>, <<"uB0EC", "uB0F0">>, <<"uB108", "uB10C">>, <<"uB124", "uB128">>,
                    <<"uB140", "uB144">>, <<"uB15C", "uB160">>, <<"uB178", "uB17C">>, <<"uB194", "uB198">>,
                    <<"uB1B0", "uB1B4">>, <<"uB1CC", "uB1D0">>, <<"uB1E8", "uB1EC">>, <<"uB204", "uB208">>,
                    <<"uB220", "uB224">>, <<"uB23C", "uB240">>, <<"uB258", "uB25C">>, <<"uB274", "uB278">>,
                    <<"uB290", "uB294">>, <<"uB2AC", "uB2B0">>, <<"uB2C8", "uB2CC">>, <<"uB2E4", "uB2E8">>,
                    <<"uB300", "uB304">>, <<"uB31C", "uB320">>, <<"uB338", "uB33C">>, <<"uB354", "uB358">>,
                    <<"uB370", "uB374">>, <<"uB38C", "uB390">>, <<"uB3A8", "uB3AC">>, <<"uB3C4", "uB3C8">>,
                    <<"uB3E0", "uB3E4">>, <<"uB3FC", "uB400">>, <<"uB418", "uB41C">>, <<"uB434", "uB438">>,
                    <<"uB450", "uB454">>, <<"uB46C", "uB470">>, <<"uB488", "uB48C">>, <<"uB4A4", "uB4A8">>,
                    <<"uB4C0", "uB4C4">>, <<"uB4DC", "uB4E0">>, <<"uB4F8", "uB4FC">>, <<"uB514", "uB518">>,
                    <<"uB530", "uB534">>, <<"uB54C", "uB550">>, <<"uB568", "uB56C">>, <<"uB584", "uB588">>,
                    <<"uB5A0", "uB5A4">>, <<"uB5BC", "uB5C0">>, <<"uB5D8", "uB5DC">>, <<"uB5F4", "uB5F8">>,
                    <<"uB610", "uB614">>, <<"uB62C", "uB630">>, <<"uB648", "uB64C">>, <<"uB664", "uB668">>,
                    <<"uB680", "uB684">>, <<"uB69C", "uB6A0">>, <<"uB6B8", "uB6BC">>, <<"uB6D4", "uB6D8">>,
                    <<"uB6F0", "uB6F4">>, <<"uB70C", "uB710">>, <<"uB728", "uB72C">>, <<"uB744", "uB748">>,
                    <<"uB760", "uB764">>, <<"uB77C", "uB780">>, <<"uB798", "uB79C">>, <<"uB7B4", "uB7B8">>,
                    <<"uB7D0", "uB7D4">>, <<"uB7EC", "uB7F0">>, <<"uB808", "uB80C">>, <<"uB824", "uB828">>,
                    <<"uB840", "uB844">>, <<"uB85C", "uB860">>, <<"uB878", "uB87C">>, <<"uB894", "uB898">>,
                    <<"uB8B0", "uB8B4">>, <<"uB8CC", "uB8D0">>, <<"uB8E8", "uB8EC">>, <<"uB904", "uB908">>,
                    <<"uB920", "uB924">>, <<"uB93C", "uB940">>, <<"uB958", "uB95C">>, <<"uB974", "uB978">>,
                    <<"uB990", "uB994">>, <<"uB9AC", "uB9B0">>, <<"uB9C8", "uB9CC">>, <<"uB9E4", "uB9E8">>,
                    <<"uBA00", "uBA04">>, <<"uBA1C", "uBA20">>, <<"uBA38", "uBA3C">>, <<"uBA54", "uBA58">>,
                    <<"uBA70", "uBA74">>, <<"uBA8C", "uBA90">>, <<"uBAA8", "uBAAC">>, <<"uBAC4", "uBAC8">>,
                    <<"uBAE0", "uBAE4">>, <<"uBAFC", "uBB00">>, <<"uBB18", "uBB1C">>, <<"uBB34", "uBB38">>,
                    <<"uBB50", "uBB54">>, <<"uBB6C", "uBB70">>, <<"uBB88", "uBB8C">>, <<"uBBA4", "uBBA8">>,
                    <<"uBBC0", "uBBC4">>, <<"uBBDC", "uBBE0">>, <<"uBBF8", "uBBFC">>, <<"uBC14", "uBC18">>,
                    <<"uBC30", "uBC34">>, <<"uBC4C", "uBC50">>, <<"uBC68", "uBC6C">>, <<"uBC84", "uBC88">>,
                    <<"uBCA0", "uBCA4">>, <<"uBCBC", "uBCC0">>, <<"uBCD8", "uBCDC">>, <<"uBCF4", "uBCF8">>,
                    <<"uBD10", "uBD14">>, <<"uBD2C", "uBD30">>, <<"uBD48", "uBD4C">>, <<"uBD64", "uBD68">>,
                    <<"uBD80", "uBD84">>, <<"uBD9C", "uBDA0">>, <<"uBDB8", "uBDBC">>, <<"uBDD4", "uBDD8">>,
                    <<"uBDF0", "uBDF4">>, <<"uBE0C", "uBE10">>, <<"uBE28", "uBE2C">>, <<"uBE44", "uBE48">>,
                    <<"uBE60", "uBE64">>, <<"uBE7C", "uBE80">>, <<"uBE98", "uBE9C">>, <<"uBEB4", "uBEB8">>,
                    <<"uBED0", "uBED4">>, <<"uBEEC", "uBEF0">>, <<"uBF08", "uBF0C">>, <<"uBF24", "uBF28">>,
                    <<"uBF40", "uBF44">>, <<"uBF5C", "uBF60">>, <<"uBF78", "uBF7C">>, <<"uBF94", "uBF98">>,
                    <<"uBFB0", "uBFB4">>, <<"uBFCC", "uBFD0">>, <<"uBFE8", "uBFEC">>, <<"uC004", "uC008">>,
                    <<"uC020", "uC024">>, <<"uC03C", "uC040">>, <<"uC058", "uC05C">>, <<"uC074", "uC078">>,
                    <<"uC090", "uC094">>, <<"uC0AC", "uC0B0">>, <<"uC0C8", "uC0CC">>, <<"uC0E4", "uC0E8">>,
                    <<"uC100", "uC104">>, <<"uC11C", "uC120">>, <<"uC138", "uC13C">>, <<"uC154", "uC158">>,
                    <<"uC170", "uC174">>, <<"uC18C", "uC190">>, <<"uC1A8", "uC1AC">>, <<"uC1C4", "uC1C8">>,
                    <<"uC1E0", "uC1E4">>, <<"uC1FC", "uC200">>, <<"uC218", "uC21C">>, <<"uC234", "uC238">>,
                    <<"uC250", "uC254">>, <<"uC26C", "uC270">>, <<"uC288", "uC28C">>, <<"uC2A4", "uC2A8">>,
                    <<"uC2C0", "uC2C4">>, <<"uC2DC", "uC2E0">>, <<"uC2F8", "uC2FC">>, <<"uC314", "uC318">>,
                    <<"uC330", "uC334">>, <<"uC34C", "uC350">>, <<"uC368", "uC36C">>, <<"uC384", "uC388">>,
                    <<"uC3A0", "uC3A4">>, <<"uC3BC", "uC3C0">>, <<"uC3D8", "uC3DC">>, <<"uC3F4", "uC3F8">>,
                    <<"uC410", "uC414">>, <<"uC42C", "uC430">>, <<"uC448", "uC44C">>, <<"uC464", "uC468">>,
                    <<"uC480", "uC484">>, <<"uC49C", "uC4A0">>, <<"uC4B8", "uC4BC">>, <<"uC4D4", "uC4D8">>,
                    <<"uC4F0", "uC4F4">>, <<"uC50C", "uC510">>, <<"uC528", "uC52C">>, <<"uC544", "uC548">>,
                    <<"uC560", "uC564">>, <<"uC57C", "uC580">>, <<"uC598", "uC59C">>, <<"uC5B4", "uC5B8">>,
                    <<"uC5D0", "uC5D4">>, <<"uC5EC", "uC5F0">>, <<"uC608", "uC60C">>, <<"uC624", "uC628">>,
                    <<"uC640", "uC644">>, <<"uC65C", "uC660">>, <<"uC678", "uC67C">>, <<"uC694", "uC698">>,
                    <<"uC6B0", "uC6B4">>, <<"uC6CC", "uC6D0">>, <<"uC6E8", "uC6EC">>, <<"uC704", "uC708">>,
                    <<"uC720", "uC724">>, <<"uC73C", "uC740">>, <<"uC758", "uC75C">>, <<"uC774", "uC778">>,
                    <<"uC790", "uC794">>, <<"uC7AC", "uC7B0">>, <<"uC7C8", "uC7CC">>, <<"uC7E4", "uC7E8">>,
                    <<"uC800", "uC804">>, <<"uC81C", "uC820">>, <<"uC838", "uC83C">>, <<"uC854", "uC858">>,
                    <<"uC870", "uC874">>, <<"uC88C", "uC890">>, <<"uC8A8", "uC8AC">>, <<"uC8C4", "uC8C8">>,
                    <<"uC8E0", "uC8E4">>, <<"uC8FC", "uC900">>, <<"uC918", "uC91C">>, <<"uC934", "uC938">>,
                    <<"uC950", "uC954">>, <<"uC96C", "uC970">>, <<"uC988", "uC98C">>, <<"uC9A4", "uC9A8">>,
                    <<"uC9C0", "uC9C4">>, <<"uC9DC", "uC9E0">>, <<"uC9F8", "uC9FC">>, <<"uCA14", "uCA18">>,
                    <<"uCA30", "uCA34">>, <<"uCA4C", "uCA50">>, <<"uCA68", "uCA6C">>, <<"uCA84", "uCA88">>,
                    <<"uCAA0", "uCAA4">>, <<"uCABC", "uCAC0">>, <<"uCAD8", "uCADC">>, <<"uCAF4", "uCAF8">>,
                    <<"uCB10", "uCB14">>, <<"uCB2C", "uCB30">>, <<"uCB48", "uCB4C">>, <<"uCB64", "uCB68">>,
                    <<"uCB80", "uCB84">>, <<"uCB9C", "uCBA0">>, <<"uCBB8", "uCBBC">>, <<"uCBD4", "uCBD8">>,
                    <<"uCBF0", "uCBF4">>, <<"uCC0C", "uCC10">>, <<"uCC28", "uCC2C">>, <<"uCC44", "uCC48">>,
                    <<"uCC60", "uCC64">>, <<"uCC7C", "uCC80">>, <<"uCC98", "uCC9C">>, <<"uCCB4", "uCCB8">>,
                    <<"uCCD0", "uCCD4">>, <<"uCCEC", "uCCF0">>, <<"uCD08", "uCD0C">>, <<"uCD24", "uCD28">>,
                    <<"uCD40", "uCD44">>, <<"uCD5C", "uCD60">>, <<"uCD78", "uCD7C">>, <<"uCD94", "uCD98">>,
                    <<"uCDB0", "uCDB4">>, <<"uCDCC", "uCDD0">>, <<"uCDE8", "uCDEC">>, <<"uCE04", "uCE08">>,
                    <<"uCE20", "uCE24">>, <<"uCE3C", "uCE40">>, <<"uCE58", "uCE5C">>, <<"uCE74", "uCE78">>,
                    <<"uCE90", "uCE94">>, <<"uCEAC", "uCEB0">>, <<"uCEC8", "uCECC">>, <<"uCEE4", "uCEE8">>,
                    <<"uCF00", "uCF04">>, <<"uCF1C", "uCF20">>, <<"uCF38", "uCF3C">>, <<"uCF54", "uCF58">>,
                    <<"uCF70", "uCF74">>, <<"uCF8C", "uCF90">>, <<"uCFA8", "uCFAC">>, <<"uCFC4", "uCFC8">>,
                    <<"uCFE0", "uCFE4">>, <<"uCFFC", "uD000">>, <<"uD018", "uD01C">>, <<"uD034", "uD038">>,
                    <<"uD050", "uD054">>, <<"uD06C", "uD070">>, <<"uD088", "uD08C">>, <<"uD0A4", "uD0A8">>,
                    <<"uD0C0", "uD0C4">>, <<"uD0DC", "uD0E0">>, <<"uD0F8", "uD0FC">>, <<"uD114", "uD118">>,
                    <<"uD130", "uD134">>, <<"uD14C", "uD150">>, <<"uD168", "uD16C">>, <<"uD184", "uD188">>,
                    <<"uD1A0", "uD1A4">>, <<"uD1BC", "uD1C0">>, <<"uD1D8", "uD1DC">>, <<"uD1F4", "uD1F8">>,
                    <<"uD210", "uD214">>, <<"uD22C", "uD230">>, <<"uD248", "uD24C">>, <<"uD264", "uD268">>,
                    <<"uD280", "uD284">>, <<"uD29C", "uD2A0">>, <<"uD2B8", "uD2BC">>, <<"uD2D4", "uD2D8">>,
                    <<"uD2F0", "uD2F4">>, <<"uD30C", "uD310">>, <<"uD328", "uD32C">>, <<"uD344", "uD348">>,
                    <<"uD360", "uD364">>, <<"uD37C", "uD380">>, <<"uD398", "uD39C">>, <<"uD3B4", "uD3B8">>,
                    <<"uD3D0", "uD3D4">>, <<"uD3EC", "uD3F0">>, <<"uD408", "uD40C">>, <<"uD424", "uD428">>,
                    <<"uD440", "uD444">>, <<"uD45C", "uD460">>, <<"uD478", "uD47C">>, <<"uD494", "uD498">>,
                    <<"uD4B0", "uD4B4">>, <<"uD4CC", "uD4D0">>, <<"uD4E8", "uD4EC">>, <<"uD504", "uD508">>,
                    <<"uD520", "uD524">>, <<"uD53C", "uD540">>, <<"uD558", "uD55C">>, <<"uD574", "uD578">>,
                    <<"uD590", "uD594">>, <<"uD5AC", "uD5B0">>, <<"uD5C8", "uD5CC">>, <<"uD5E4", "uD5E8">>,
                    <<"uD600", "uD604">>, <<"uD61C", "uD620">>, <<"uD638", "uD63C">>, <<"uD654", "uD658">>,
                    <<"uD670", "uD674">>, <<"uD68C", "uD690">>, <<"uD6A8", "uD6AC">>, <<"uD6C4", "uD6C8">>,
                    <<"uD6E0", "uD6E4">>, <<"uD6FC", "uD700">>, <<"uD718", "uD71C">>, <<"uD734", "uD738">>,
                    <<"uD750", "uD754">>, <<"uD76C", "uD770">>, <<"uD788", "uD78C">>},
         u11AC |-> {<<"uAC00", "uAC05">>, <<"uAC1C", "uAC21">>, <<"uAC38", "uAC3D">>, <<"uAC54", "uAC59">>,
                    <<"uAC70", "uAC75">>, <<"uAC8C", "uAC91">>, <<"uACA8", "uACAD">>, <<"uACC4", "uACC9">>,
                    <<"uACE0", "uACE5">>, <<"uACFC", "uAD01">>, <<"uAD18", "uAD1D">>, <<"uAD34", "uAD39">>,
                    <<"uAD50", "uAD55">>, <<"uAD6C", "uAD71">>, <<"uAD88", "uAD8D">>, <<"uADA4", "uADA9">>,
                    <<"uADC0", "uADC5">>, <<"uADDC", "uADE1">>, <<"uADF8", "uADFD">>, <<"uAE14", "uAE19">>,
                    <<"uAE30", "uAE35">>, <<"uAE4C", "uAE51">>, <<"uAE68", "uAE6D">>, <<"uAE84", "uAE89">>,
                    <<"uAEA0", "uAEA5">>, <<"uAEBC", "uAEC1">>, <<"uAED8", "uAEDD">>, <<"uAEF4", "uAEF9">>,
                    <<"uAF10", "uAF15">>, <<"uAF2C", "uAF31">>, <<"uAF48", "uAF4D">>, <<"uAF64", "uAF69">>,
                    <<"uAF80", "uAF85">>, <<"uAF9C", "uAFA1">>, <<"uAFB8", "uAFBD">>, <<"uAFD4", "uAFD9">>,
                    <<"uAFF0", "uAFF5">>, <<"uB00C", "uB011">>, <<"uB028", "uB02D">>, <<"uB044", "uB049">>,
                    <<"uB060", "uB065">>, <<"uB07C", "uB081">>, <<"uB098", "uB09D">>, <<"uB0B4", "uB0B9">>,
                    <<"uB0D0", "uB0D5">>, <<"uB0EC", "uB0F1">>, <<"uB108", "uB10D">>, <<"uB124", "uB129">>,
                    <<"uB140", "uB145">>, <<"uB15C", "uB161">>, <<"uB178", "uB17D">>, <<"uB194", "uB199">>,
                    <<"uB1B0", "uB1B5">>, <<"uB1CC", "uB1D1">>, <<"uB1E8", "uB1ED">>, <<"uB204", "uB209">>,
                    <<"uB220", "uB225">>, <<"uB23C", "uB241">>, <<"uB258", "uB25D">>, <<"uB274", "uB279">>,
                    <<"uB290", "uB295">>, <<"uB2AC", "uB2B1">>, <<"uB2C8", "uB2CD">>, <<"uB2E4", "uB2E9">>,
                    <<"uB300", "uB305">>, <<"uB31C", "uB321">>, <<"uB338", "uB33D">>, <<"uB354", "uB359">>,
                    <<"uB370", "uB375">>, <<"uB38C", "uB391">>, <<"uB3A8", "uB3AD">>, <<"uB3C4", "uB3C9">>,
                    <<"uB3E0", "uB3E5">>, <<"uB3FC", "uB401">>, <<"uB418", "uB41D">>, <<"uB434", "uB439">>,
                    <<"uB450", "uB455">>, <<"uB46C", "uB471">>, <<"uB488", "uB48D">>, <<"uB4A4", "uB4A9">>,
                    <<"uB4C0", "uB4C5">>, <<"uB4DC", "uB4E1">>, <<"uB4F8", "uB4FD">>, <<"uB514", "uB519">>,
                    <<"uB530", "uB535">>, <<"uB54C", "uB551">>, <<"uB568", "uB56D">>, <<"uB584", "uB589">>,
                    <<"uB5A0", "uB5A5">>, <<"uB5BC", "uB5C1">>, <<"uB5D8", "uB5DD">>, <<"uB5F4", "uB5F9">>,
                    <<"uB610", "uB615">>, <<"uB62C", "uB631">>, <<"uB648", "uB64D">>, <<"uB664", "uB669">>,
                    <<"uB680", "uB685">>, <<"uB69C", "uB6A1">>, <<"uB6B8", "uB6BD">>, <<"uB6D4", "uB6D9">>,
                    <<"uB6F0", "uB6F5">>, <<"uB70C", "uB711">>, <<"uB728", "uB72D">>, <<"uB744", "uB749">>,
                    <<"uB760", "uB765">>, <<"uB77C", "uB781">>, <<"uB798", "uB79D">>, <<"uB7B4", "uB7B9">>,
                    <<"uB7D0", "uB7D5">>, <<"uB7EC", "uB7F1">>, <<"uB808", "uB80D">>, <<"uB824", "uB829">>,
                    <<"uB840", "uB845">>, <<"uB85C", "uB861">>, <<"uB878", "uB87D">>, <<"uB894", "uB899">>,
                    <<"uB8B0", "uB8B5">>, <<"uB8CC", "uB8D1">>, <<"uB8E8", "uB8ED">>, <<"uB904", "uB909">>,
                    <<"uB920", "uB925">>, <<"uB93C", "uB941">>, <<"uB958", "uB95D">>, <<"uB974", "uB979">>,
                    <<"uB990", "uB995">>, <<"uB9AC", "uB9B1">>, <<"uB9C8", "uB9CD">>, <<"uB9E4", "uB9E9">>,
                    <<"uBA00", "uBA05">>, <<"uBA1C", "uBA21">>, <<"uBA38", "uBA3D">>, <<"uBA54", "uBA59">>,
                    <<"uBA70", "uBA75">>, <<"uBA8C", "uBA91">>, <<"uBAA8", "uBAAD">>, <<"uBAC4", "uBAC9">>,
                    <<"uBAE0", "uBAE5">>, <<"uBAFC", "uBB01">>, <<"uBB18", "uBB1D">>, <<"uBB34", "uBB39">>,
                    <<"uBB50", "uBB55">>, <<"uBB6C", "uBB71">>, <<"uBB88", "uBB8D">>, <<"uBBA4", "uBBA9">>,
                    <<"uBBC0", "uBBC5">>, <<"uBBDC", "uBBE1">>, <<"uBBF8", "uBBFD">>, <<"uBC14", "uBC19">>,
                    <<"uBC30", "uBC35">>, <<"uBC4C", "uBC51">>, <<"uBC68", "uBC6D">>, <<"uBC84", "uBC89">>,
                    <<"uBCA0", "uBCA5">>, <<"uBCBC", "uBCC1">>, <<"uBCD8", "uBCDD">>, <<"uBCF4", "uBCF9">>,
                    <<"uBD10", "uBD15">>, <<"uBD2C", "uBD31">>, <<"uBD48", "uBD4D">>, <<"uBD64", "uBD69">>,
                    <<"uBD80", "uBD85">>, <<"uBD9C", "uBDA1">>, <<"uBDB8", "uBDBD">>, <<"uBDD4", "uBDD9">>,
                    <<"uBDF0", "uBDF5">>, <<"uBE0C", "uBE11">>, <<"uBE28", "uBE2D">>, <<"uBE44", "uBE49">>,
                    <<"uBE60", "uBE65">>, <<"uBE7C", "uBE81">>, <<"uBE98", "uBE9D">>, <<"uBEB4", "uBEB9">>,
                    <<"uBED0", "uBED5">>, <<"uBEEC", "uBEF1">>, <<"uBF08", "uBF0D">>, <<"uBF24", "uBF29">>,
                    <<"uBF40", "uBF45">>, <<"uBF5C", "uBF61">>, <<"uBF78", "uBF7D">>, <<"uBF94", "uBF99">>,
                    <<"uBFB0", "uBFB5">>, <<"uBFCC", "uBFD1">>, <<"uBFE8", "uBFED">>, <<"uC004", "uC009">>,
                    <<"uC020", "uC025">>, <<"uC03C", "uC041">>, <<"uC058", "uC05D">>, <<"uC074", "uC079">>,
                    <<"uC090", "uC095">>, <<"uC0AC", "uC0B1">>, <<"uC0C8", "uC0CD">>, <<"uC0E4", "uC0E9">>,
                    <<"uC100", "uC105">>, <<"uC11C", "uC121">>, <<"uC138", "uC13D">>, <<"uC154", "uC159">>,
                    <<"uC170", "uC175">>, <<"uC18C", "uC191">>, <<"uC1A8", "uC1AD">>, <<"uC1C4", "uC1C9">>,
                    <<"uC1E0", "uC1E5">>, <<"uC1FC", "uC201">>, <<"uC218", "uC21D">>, <<"uC234", "uC239">>,
                    <<"uC250", "uC255">>, <<"uC26C", "uC271">>, <<"uC288", "uC28D">>, <<"uC2A4", "uC2A9">>,
                    <<"uC2C0", "uC2C5">>, <<"uC2DC", "uC2E1">>, <<"uC2F8", "uC2FD">>, <<"uC314", "uC319">>,
                    <<"uC330", "uC335">>, <<"uC34C", "uC351">>, <<"uC368", "uC36D">>, <<"uC384", "uC389">>,
                    <<"uC3A0", "uC3A5">>, <<"uC3BC", "uC3C1">>, <<"uC3D8", "uC3DD">>, <<"uC3F4", "uC3F9">>,
                    <<"uC410", "uC415">>, <<"uC42C", "uC431">>, <<"uC448", "uC44D">>, <<"uC464", "uC469">>,
                    <<"uC480", "uC485">>, <<"uC49C", "uC4A1">>, <<"uC4B8", "uC4BD">>, <<"uC4D4", "uC4D9">>,
                    <<"uC4F0", "uC4F5">>, <<"uC50C", "uC511">>, <<"uC528", "uC52D">>, <<"uC544", "uC549">>,
                    <<"uC560", "uC565">>, <<"uC57C", "uC581">>, <<"uC598", "uC59D">>, <<"uC5B4", "uC5B9">>,
                    <<"uC5D0", "uC5D5">>, <<"uC5EC", "uC5F1">>, <<"uC608", "uC60D">>, <<"uC624", "uC629">>,
                    <<"uC640", "uC645">>, <<"uC65C", "uC661">>, <<"uC678", "uC67D">>, <<"uC694", "uC699">>,
                    <<"uC6B0", "uC6B5">>, <<"uC6CC", "uC6D1">>, <<"uC6E8", "uC6ED">>, <<"uC704", "uC709">>,
                    <<"uC720", "uC725">>, <<"uC73C", "uC741">>, <<"uC758", "uC75D">>, <<"uC774", "uC779">>,
                    <<"uC790", "uC795">>, <<"uC7AC", "uC7B1">>, <<"uC7C8", "uC7CD">>, <<"uC7E4", "uC7E9">>,
                    <<"uC800", "uC805">>, <<"uC81C", "uC821">>, <<"uC838", "uC83D">>, <<"uC854", "uC859">>,
                    <<"uC870", "uC875">>, <<"uC88C", "uC891">>, <<"uC8A8", "uC8AD">>, <<"uC8C4", "uC8C9">>,
                    <<"uC8E0", "uC8E5">>, <<"uC8FC", "uC901">>, <<"uC918", "uC91D">>, <<"uC934", "uC939">>,
                    <<"uC950", "uC955">>, <<"uC96C", "uC971">>, <<"uC988", "uC98D">>, <<"uC9A4", "uC9A9">>,
                    <<"uC9C0", "uC9C5">>, <<"uC9DC", "uC9E1">>, <<"uC9F8", "uC9FD">>, <<"uCA14", "uCA19">>,
                    <<"uCA30", "uCA35">>, <<"uCA4C", "uCA51">>, <<"uCA68", "uCA6D">>, <<"uCA84", "uCA89">>,
                    <<"uCAA0", "uCAA5">>, <<"uCABC", "uCAC1">>, <<"uCAD8", "uCADD">>, <<"uCAF4", "uCAF9">>,
                    <<"uCB10", "uCB15">>, <<"uCB2C", "uCB31">>, <<"uCB48", "uCB4D">>, <<"uCB64", "uCB69">>,
                    <<"uCB80", "uCB85">>, <<"uCB9C", "uCBA1">>, <<"uCBB8", "uCBBD">>, <<"uCBD4", "uCBD9">>,
                    <<"uCBF0", "uCBF5">>, <<"uCC0C", "uCC11">>, <<"uCC28", "uCC2D">>, <<"uCC44", "uCC49">>,
                    <<"uCC60", "uCC65">>, <<"uCC7C", "uCC81">>, <<"uCC98", "uCC9D">>, <<"uCCB4", "uCCB9">>,
                    <<"uCCD0", "uCCD5">>, <<"uCCEC", "uCCF1">>, <<"uCD08", "uCD0D">>, <<"uCD24", "uCD29">>,
                    <<"uCD40", "uCD45">>, <<"uCD5C", "uCD61">>, <<"uCD78", "uCD7D">>, <<"uCD94", "uCD99">>,
                    <<"uCDB0", "uCDB5">>, <<"uCDCC", "uCDD1">>, <<"uCDE8", "uCDED">>, <<"uCE04", "uCE09">>,
                    <<"uCE20", "uCE25">>, <<"uCE3C", "uCE41">>, <<"uCE58", "uCE5D">>, <<"uCE74", "uCE79">>,
                    <<"uCE90", "uCE95">>, <<"uCEAC", "uCEB1">>, <<"uCEC8", "uCECD">>, <<"uCEE4", "uCEE9">>,
                    <<"uCF00", "uCF05">>, <<"uCF1C", "uCF21">>, <<"uCF38", "uCF3D">>, <<"uCF54", "uCF59">>,
                    <<"uCF70", "uCF75">>, <<"uCF8C", "uCF91">>, <<"uCFA8", "uCFAD">>, <<"uCFC4", "uCFC9">>,
                    <<"uCFE0", "uCFE5">>, <<"uCFFC", "uD001">>, <<"uD018", "uD01D">>, <<"uD034", "uD039">>,
                    <<"uD050", "uD055">>, <<"uD06C", "uD071">>, <<"uD088", "uD08D">>, <<"uD0A4", "uD0A9">>,
                    <<"uD0C0", "uD0C5">>, <<"uD0DC", "uD0E1">>, <<"uD0F8", "uD0FD">>, <<"uD114", "uD119">>,
                    <<"uD130", "uD135">>, <<"uD14C", "uD151">>, <<"uD168", "uD16D">>, <<"uD184", "uD189">>,
                    <<"uD1A0", "uD1A5">>, <<"uD1BC", "uD1C1">>, <<"uD1D8", "uD1DD">>, <<"uD1F4", "uD1F9">>,
                    <<"uD210", "uD215">>, <<"uD22C", "uD231">>, <<"uD248", "uD24D">>, <<"uD264", "uD269">>,
                    <<"uD280", "uD285">>, <<"uD29C", "uD2A1">>, <<"uD2B8", "uD2BD">>, <<"uD2D4", "uD2D9">>,
                    <<"uD2F0", "uD2F5">>, <<"uD30C", "uD311">>, <<"uD328", "uD32D">>, <<"uD344", "uD349">>,
                    <<"uD360", "uD365">>, <<"uD37C", "uD381">>, <<"uD398", "uD39D">>, <<"uD3B4", "uD3B9">>,
                    <<"uD3D0", "uD3D5">>, <<"uD3EC", "uD3F1">>, <<"uD408", "uD40D">>, <<"uD424", "uD429">>,
                    <<"uD440", "uD445">>, <<"uD45C", "uD461">>, <<"uD478", "uD47D">>, <<"uD494", "uD499">>,
                    <<"uD4B0", "uD4B5">>, <<"uD4CC", "uD4D1">>, <<"uD4E8", "uD4ED">>, <<"uD504", "uD509">>,
                    <<"uD520", "uD525">>, <<"uD53C", "uD541">>, <<"uD558", "uD55D">>, <<"uD574", "uD579">>,
                    <<"uD590", "uD595">>, <<"uD5AC", "uD5B1">>, <<"uD5C8", "uD5CD">>, <<"uD5E4", "uD5E9">>,
                    <<"uD600", "uD605">>, <<"uD61C", "uD621">>, <<"uD638", "uD63D">>, <<"uD654", "uD659">>,
                    <<"uD670", "uD675">>, <<"uD68C", "uD691">>, <<"uD6A8", "uD6AD">>, <<"uD6C4", "uD6C9">>,
                    <<"uD6E0", "uD6E5">>, <<"uD6FC", "uD701">>, <<"uD718", "uD71D">>, <<"uD734", "uD739">>,
                    <<"uD750", "uD755">>, <<"uD76C", "uD771">>, <<"uD788", "uD78D">>},
         u11AD |-> {<<"uAC00", "uAC06">>, <<"uAC1C", "uAC22">>, <<"uAC38", "uAC3E">>, <<"uAC54", "uAC5A">>,
                    <<"uAC70", "uAC76">>, <<"uAC8C", "uAC92">>, <<"uACA8", "uACAE">>, <<"uACC4", "uACCA">>,
                    <<"uACE0", "uACE6">>, <<"uACFC", "uAD02">>, <<"uAD18", "uAD1E">>, <<"uAD34", "uAD3A">>,
                    <<"uAD50", "uAD56">>, <<"uAD6C", "uAD72">>, <<"uAD88", "uAD8E">>, <<"uADA4", "uADAA">>,
                    <<"uADC0", "uADC6">>, <<"uADDC", "uADE2">>, <<"uADF8", "uADFE">>, <<"uAE14", "uAE1A">>,
                    <<"uAE30", "uAE36">>, <<"uAE4C", "uAE52">>, <<"uAE68", "uAE6E">>, <<"uAE84", "uAE8A">>,
                    <<"uAEA0", "uAEA6">>, <<"uAEBC", "uAEC2">>, <<"uAED8", "uAEDE">>, <<"uAEF4", "uAEFA">>,
                    <<"uAF10", "uAF16">>, <<"uAF2C", "uAF32">>, <<"uAF48", "uAF4E">>, <<"uAF64", "uAF6A">>,
                    <<"uAF80", "uAF86">>, <<"uAF9C", "uAFA2">>, <<"uAFB8", "uAFBE">>, <<"uAFD4", "uAFDA">>,
                    <<"uAFF0", "uAFF6">>, <<"uB00C", "uB012">>, <<"uB028", "uB02E">>, <<"uB044", "uB04A">>,
                    <<"uB060", "uB066">>, <<"uB07C", "uB082">>, <<"uB098", "uB09E">>, <<"uB0B4", "uB0BA">>,
                    <<"uB0D0", "uB0D6">>, <<"uB0EC", "uB0F2">>, <<"uB108", "uB10E">>, <<"uB124", "uB12A">>,
                    <<"uB140", "uB146">>, <<"uB15C", "uB162">>, <<"uB178", "uB17E">>, <<"uB194", "uB19A">>,
                    <<"uB1B0", "uB1B6">>, <<"uB1CC", "uB1D2">>, <<"uB1E8", "uB1EE">>, <<"uB204", "uB20A">>,
                    <<"uB220", "uB226">>, <<"uB23C", "uB242">>, <<"uB258", "uB25E">>, <<"uB274", "uB27A">>,
                    <<"uB290", "uB296">>, <<"uB2AC", "uB2B2">>, <<"uB2C8", "uB2CE">>, <<"uB2E4", "uB2EA">>,
                    <<"uB300", "uB306">>, <<"uB31C", "uB322">>, <<"uB338", "uB33E">>, <<"uB354", "uB35A">>,
                    <<"uB370", "uB376">>, <<"uB38C", "uB392">>, <<"uB3A8", "uB3AE">>, <<"uB3C4", "uB3CA">>,
                    <<"uB3E0", "uB3E6">>, <<"uB3FC", "uB402">>, <<"uB418", "uB41E">>, <<"uB434", "uB43A">>,
                    <<"uB450", "uB456">>, <<"uB46C", "uB472">>, <<"uB488", "uB48E">>, <<"uB4A4", "uB4AA">>,
                    <<"uB4C0", "uB4C6">>, <<"uB4DC", "uB4E2">>, <<"uB4F8", "uB4FE">>, <<"uB514", "uB51A">>,
                    <<"uB530", "uB536">>, <<"uB54C", "uB552">>, <<"uB568", "uB56E">>, <<"uB584", "uB58A">>,
                    <<"uB5A0", "uB5A6">>, <<"uB5BC", "uB5C2">>, <<"uB5D8", "uB5DE">>, <<"uB5F4", "uB5FA">>,
                    <<"uB610", "uB616">>, <<"uB62C", "uB632">>, <<"uB648", "uB64E">>, <<"uB664", "uB66A">>,
                    <<"uB680", "uB686">>, <<"uB69C", "uB6A2">>, <<"uB6B8", "uB6BE">>, <<"uB6D4", "uB6DA">>,
                    <<"uB6F0", "uB6F6">>, <<"uB70C", "uB712">>, <<"uB728", "uB72E">>, <<"uB744", "uB74A">>,
                    <<"uB760", "uB766">>, <<"uB77C", "uB782">>, <<"uB798", "uB79E">>, <<"uB7B4", "uB7BA">>,
                    <<"uB7D0", "uB7D6">>, <<"uB7EC", "uB7F2">>, <<"uB808", "uB80E">>, <<"uB824", "uB82A">>,
                    <<"uB840", "uB846">>, <<"uB85C", "uB862">>, <<"uB878", "uB87E">>, <<"uB894", "uB89A">>,
                    <<"uB8B0", "uB8B6">>, <<"uB8CC", "uB8D2">>, <<"uB8E8", "uB8EE">>, <<"uB904", "uB90A">>,
                    <<"uB920", "uB926">>, <<"uB93C", "uB942">>, <<"uB958", "uB95E">>, <<"uB974", "uB97A">>,
                    <<"uB990", "uB996">>, <<"uB9AC", "uB9B2">>, <<"uB9C8", "uB9CE">>, <<"uB9E4", "uB9EA">>,
                    <<"uBA00", "uBA06">>, <<"uBA1C", "uBA22">>, <<"uBA38", "uBA3E">>, <<"uBA54", "uBA5A">>,
                    <<"uBA70", "uBA76">>, <<"uBA8C", "uBA92">>, <<"uBAA8", "uBAAE">>, <<"uBAC4", "uBACA">>,
                    <<"uBAE0", "uBAE6">>, <<"uBAFC", "uBB02">>, <<"uBB18", "uBB1E">>, <<"uBB34", "uBB3A">>,
                    <<"uBB50", "uBB56">>, <<"uBB6C", "uBB72">>, <<"uBB88", "uBB8E">>, <<"uBBA4", "uBBAA">>,
                    <<"uBBC0", "uBBC6">>, <<"uBBDC", "uBBE2">>, <<"uBBF8", "uBBFE">>, <<"uBC14", "uBC1A">>,
                    <<"uBC30", "uBC36">>, <<"uBC4C", "uBC52">>, <<"uBC68", "uBC6E">>, <<"uBC84", "uBC8A">>,
                    <<"uBCA0", "uBCA6">>, <<"uBCBC", "uBCC2">>, <<"uBCD8", "uBCDE">>, <<"uBCF4", "uBCFA">>,
                    <<"uBD10", "uBD16">>, <<"uBD2C", "uBD32">>, <<"uBD48", "uBD4E">>, <<"uBD64", "uBD6A">>,
                    <<"uBD80", "uBD86">>, <<"uBD9C", "uBDA2">>, <<"uBDB8", "uBDBE">>, <<"uBDD4", "uBDDA">>,
                    <<"uBDF0", "uBDF6">>, <<"uBE0C", "uBE12">>, <<"uBE28", "uBE2E">>, <<"uBE44", "uBE4A">>,
                    <<"uBE60", "uBE66">>, <<"uBE7C", "uBE82">>, <<"uBE98", "uBE9E">>, <<"uBEB4", "uBEBA">>,
                    <<"uBED0", "uBED6">>, <<"uBEEC", "uBEF2">>, <<"uBF08", "uBF0E">>, <<"uBF24", "uBF2A">>,
                    <<"uBF40", "uBF46">>, <<"uBF5C", "uBF62">>, <<"uBF78", "uBF7E">>, <<"uBF94", "uBF9A">>,
                    <<"uBFB0", "uBFB6">>, <<"uBFCC", "uBFD2">>, <<"uBFE8", "uBFEE">>, <<"uC004", "uC00A">>,
                    <<"uC020", "uC026">>, <<"uC03C", "uC042">>, <<"uC058", "uC05E">>, <<"uC074", "uC07A">>,
                    <<"uC090", "uC096">>, <<"uC0AC", "uC0B2">>, <<"uC0C8", "uC0CE">>, <<"uC0E4", "uC0EA">>,
                    <<"uC100", "uC106">>, <<"uC11C", "uC122">>, <<"uC138", "uC13E">>, <<"uC154", "uC15A">>,
                    <<"uC170", "uC176">>, <<"uC18C", "uC192">>, <<"uC1A8", "uC1AE">>, <<"uC1C4", "uC1CA">>,
                    <<"uC1E0", "uC1E6">>, <<"uC1FC", "uC202">>, <<"uC218", "uC21E">>, <<"uC234", "uC23A">>,
                    <<"uC250", "uC256">>, <<"uC26C", "uC272">>, <<"uC288", "uC28E">>, <<"uC2A4", "uC2AA">>,
                    <<"uC2C0", "uC2C6">>, <<"uC2DC", "uC2E2">>, <<"uC2F8", "uC2FE">>, <<"uC314", "uC31A">>,
                    <<"uC330", "uC336">>, <<"uC34C", "uC352">>, <<"uC368", "uC36E">>, <<"uC384", "uC38A">>,
                    <<"uC3A0", "uC3A6">>, <<"uC3BC", "uC3C2">>, <<"uC3D8", "uC3DE">>, <<"uC3F4", "uC3FA">>,
                    <<"uC410", "uC416">>, <<"uC42C", "uC432">>, <<"uC448", "uC44E">>, <<"uC464", "uC46A">>,
                    <<"uC480", "uC486">>, <<"uC49C", "uC4A2">>, <<"uC4B8", "uC4BE">>, <<"uC4D4", "uC4DA">>,
                    <<"uC4F0", "uC4F6">>, <<"uC50C", "uC512">>, <<"uC528", "uC52E">>, <<"uC544", "uC54A">>,
                    <<"uC560", "uC566">>, <<"uC57C", "uC582">>, <<"uC598", "uC59E">>, <<"uC5B4", "uC5BA">>,
                    <<"uC5D0", "uC5D6">>, <<"uC5EC", "uC5F2">>, <<"uC608", "uC60E">>, <<"uC624", "uC62A">>,
                    <<"uC640", "uC646">>, <<"uC65C", "uC662">>, <<"uC678", "uC67E">>, <<"uC694", "uC69A">>,
                    <<"uC6B0", "uC6B6">>, <<"uC6CC", "uC6D2">>, <<"uC6E8", "uC6EE">>, <<"uC704", "uC70A">>,
                    <<"uC720", "uC726">>, <<"uC73C", "uC742">>, <<"uC758", "uC75E">>, <<"uC774", "uC77A">>,
                    <<"uC790", "uC796">>, <<"uC7AC", "uC7B2">>, <<"uC7C8", "uC7CE">>, <<"uC7E4", "uC7EA">>,
                    <<"uC800", "uC806">>, <<"uC81C", "uC822">>, <<"uC838", "uC83E">>, <<"uC854", "uC85A">>,
                    <<"uC870", "uC876">>, <<"uC88C", "uC892">>, <<"uC8A8", "uC8AE">>, <<"uC8C4", "uC8CA">>,
                    <<"uC8E0", "uC8E6">>, <<"uC8FC", "uC902">>, <<"uC918", "uC91E">>, <<"uC934", "uC93A">>,
                    <<"uC950", "uC956">>, <<"uC96C", "uC972">>, <<"uC988", "uC98E">>, <<"uC9A4", "uC9AA">>,
                    <<"uC9C0", "uC9C6">>, <<"uC9DC", "uC9E2">>, <<"uC9F8", "uC9FE">>, <<"uCA14", "uCA1A">>,
                    <<"uCA30", "uCA36">>, <<"uCA4C", "uCA52">>, <<"uCA68", "uCA6E">>, <<"uCA84", "uCA8A">>,
                    <<"uCAA0", "uCAA6">>, <<"uCABC", "uCAC2">>, <<"uCAD8", "uCADE">>, <<"uCAF4", "uCAFA">>,
                    <<"uCB10", "uCB16">>, <<"uCB2C", "uCB32">>, <<"uCB48", "uCB4E">>, <<"uCB64", "uCB6A">>,
                    <<"uCB80", "uCB86">>, <<"uCB9C", "uCBA2">>, <<"uCBB8", "uCBBE">>, <<"uCBD4", "uCBDA">>,
                    <<"uCBF0", "uCBF6">>, <<"uCC0C", "uCC12">>, <<"uCC28", "uCC2E">>, <<"uCC44", "uCC4A">>,
                    <<"uCC60", "uCC66">>, <<"uCC7C", "uCC82">>, <<"uCC98", "uCC9E">>, <<"uCCB4", "uCCBA">>,
                    <<"uCCD0", "uCCD6">>, <<"uCCEC", "uCCF2">>, <<"uCD08", "uCD0E">>, <<"uCD24", "uCD2A">>,
                    <<"uCD40", "uCD46">>, <<"uCD5C", "uCD62">>, <<"uCD78", "uCD7E">>, <<"uCD94", "uCD9A">>,
                    <<"uCDB0", "uCDB6">>, <<"uCDCC", "uCDD2">>, <<"uCDE8", "uCDEE">>, <<"uCE04", "uCE0A">>,
                    <<"uCE20", "uCE26">>, <<"uCE3C", "uCE42">>, <<"uCE58", "uCE5E">>, <<"uCE74", "uCE7A">>,
                    <<"uCE90", "uCE96">>, <<"uCEAC", "uCEB2">>, <<"uCEC8", "uCECE">>, <<"uCEE4", "uCEEA">>,
                    <<"uCF00", "uCF06">>, <<"uCF1C", "uCF22">>, <<"uCF38", "uCF3E">>, <<"uCF54", "uCF5A">>,
                    <<"uCF70", "uCF76">>, <<"uCF8C", "uCF92">>, <<"uCFA8", "uCFAE">>, <<"uCFC4", "uCFCA">>,
                    <<"uCFE0", "uCFE6">>, <<"uCFFC", "uD002">>, <<"uD018", "uD01E">>, <<"uD034", "uD03A">>,
                    <<"uD050", "uD056">>, <<"uD06C", "uD072">>, <<"uD088", "uD08E">>, <<"uD0A4", "uD0AA">>,
                    <<"uD0C0", "uD0C6">>, <<"uD0DC", "uD0E2">>, <<"uD0F8", "uD0FE">>, <<"uD114", "uD11A">>,
                    <<"uD130", "uD136">>, <<"uD14C", "uD152">>, <<"uD168", "uD16E">>, <<"uD184", "uD18A">>,
                    <<"uD1A0", "uD1A6">>, <<"uD1BC", "uD1C2">>, <<"uD1D8", "uD1DE">>, <<"uD1F4", "uD1FA">>,
                    <<"uD210", "uD216">>, <<"uD22C", "uD232">>, <<"uD248", "uD24E">>, <<"uD264", "uD26A">>,
                    <<"uD280", "uD286">>, <<"uD29C", "uD2A2">>, <<"uD2B8", "uD2BE">>, <<"uD2D4", "uD2DA">>,
                    <<"uD2F0", "uD2F6">>, <<"uD30C", "uD312">>, <<"uD328", "uD32E">>, <<"uD344", "uD34A">>,
                    <<"uD360", "uD366">>, <<"uD37C", "uD382">>, <<"uD398", "uD39E">>, <<"uD3B4", "uD3BA">>,
                    <<"uD3D0", "uD3D6">>, <<"uD3EC", "uD3F2">>, <<"uD408", "uD40E">>, <<"uD424", "uD42A">>,
                    <<"uD440", "uD446">>, <<"uD45C", "uD462">>, <<"uD478", "uD47E">>, <<"uD494", "uD49A">>,
                    <<"uD4B0", "uD4B6">>, <<"uD4CC", "uD4D2">>, <<"uD4E8", "uD4EE">>, <<"uD504", "uD50A">>,
                    <<"uD520", "uD526">>, <<"uD53C", "uD542">>, <<"uD558", "uD55E">>, <<"uD574", "uD57A">>,
                    <<"uD590", "uD596">>, <<"uD5AC", "uD5B2">>, <<"uD5C8", "uD5CE">>, <<"uD5E4", "uD5EA">>,
                    <<"uD600", "uD606">>, <<"uD61C", "uD622">>, <<"uD638", "uD63E">>, <<"uD654", "uD65A">>,
                    <<"uD670", "uD676">>, <<"uD68C", "uD692">>, <<"uD6A8", "uD6AE">>, <<"uD6C4", "uD6CA">>,
                    <<"uD6E0", "uD6E6">>, <<"uD6FC", "uD702">>, <<"uD718", "uD71E">>, <<"uD734", "uD73A">>,
                    <<"uD750", "uD756">>, <<"uD76C", "uD772">>, <<"uD788", "uD78E">>},
         u11AE |-> {<<"uAC00", "uAC07">>, <<"uAC1C", "uAC23">>, <<"uAC38", "uAC3F">>, <<"uAC54", "uAC5B">>,
                    <<"uAC70", "uAC77">>, <<"uAC8C", "uAC93">>, <<"uACA8", "uACAF">>, <<"uACC4", "uACCB">>,
                    <<"uACE0", "uACE7">>, <<"uACFC", "uAD03">>, <<"uAD18", "uAD1F">>, <<"uAD34", "uAD3B">>,
                    <<"uAD50", "uAD57">>, <<"uAD6C", "uAD73">>, <<"uAD88", "uAD8F">>, <<"uADA4", "uADAB">>,
                    <<"uADC0", "uADC7">>, <<"uADDC", "uADE3">>, <<"uADF8", "uADFF">>, <<"uAE14", "uAE1B">>,
                    <<"uAE30", "uAE37">>, <<"uAE4C", "uAE53">>, <<"uAE68", "uAE6F">>, <<"uAE84", "uAE8B">>,
                    <<"uAEA0", "uAEA7">>, <<"uAEBC", "uAEC3">>, <<"uAED8", "uAEDF">>, <<"uAEF4", "uAEFB">>,
                    <<"uAF10", "uAF17">>, <<"uAF2C", "uAF33">>, <<"uAF48", "uAF4F">>, <<"uAF64", "uAF6B">>,
                    <<"uAF80", "uAF87">>, <<"uAF9C", "uAFA3">>, <<"uAFB8", "uAFBF">>, <<"uAFD4", "uAFDB">>,
                    <<"uAFF0", "uAFF7">>, <<"uB00C", "uB013">>, <<"uB028", "uB02F">>, <<"uB044", "uB04B">>,
                    <<"uB060", "uB067">>, <<"uB07C", "uB083">>, <<"uB098", "uB09F">>, <<"uB0B4", "uB0BB">>,
                    <<"uB0D0", "uB0D7">>, <<"uB0EC", "uB0F3">>, <<"uB108", "uB10F">>, <<"uB124", "uB12B">>,
                    <<"uB140", "uB147">>, <<"uB15C", "uB163">>, <<"uB178", "uB17F">>, <<"uB194", "uB19B">>,
                    <<"uB1B0", "uB1B7">>, <<"uB1CC", "uB1D3">>, <<"uB1E8", "uB1EF">>, <<"uB204", "uB20B">>,
                    <<"uB220", "uB227">>, <<"uB23C", "uB243">>, <<"uB258", "uB25F">>, <<"uB274", "uB27B">>,
                    <<"uB290", "uB297">>, <<"uB2AC", "uB2B3">>, <<"uB2C8", "uB2CF">>, <<"uB2E4", "uB2EB">>,
                    <<"uB300", "uB307">>, <<"uB31C", "uB323">>, <<"uB338", "uB33F">>, <<"uB354", "uB35B">>,
                    <<"uB370", "uB377">>, <<"uB38C", "uB393">>, <<"uB3A8", "uB3AF">>, <<"uB3C4", "uB3CB">>,
                    <<"uB3E0", "uB3E7">>, <<"uB3FC", "uB403">>, <<"uB418", "uB41F">>, <<"uB434", "uB43B">>,
                    <<"uB450", "uB457">>, <<"uB46C", "uB473">>, <<"uB488", "uB48F">>, <<"uB4A4", "uB4AB">>,
                    <<"uB4C0", "uB4C7">>, <<"uB4DC", "uB4E3">>, <<"uB4F8", "uB4FF">>, <<"uB514", "uB51B">>,
                    <<"uB530", "uB537">>, <<"uB54C", "uB553">>, <<"uB568", "uB56F">>, <<"uB584", "uB58B">>,
                    <<"uB5A0", "uB5A7">>, <<"uB5BC", "uB5C3">>, <<"uB5D8", "uB5DF">>, <<"uB5F4", "uB5FB">>,
                    <<"uB610", "uB617">>, <<"uB62C", "uB633">>, <<"uB648", "uB64F">>, <<"uB664", "uB66B">>,
                    <<"uB680", "uB687">>, <<"uB69C", "uB6A3">>, <<"uB6B8", "uB6BF">>, <<"uB6D4", "uB6DB">>,
                    <<"uB6F0", "uB6F7">>, <<"uB70C", "uB713">>, <<"uB728", "uB72F">>, <<"uB744", "uB74B">>,
                    <<"uB760", "uB767">>, <<"uB77C", "uB783">>, <<"uB798", "uB79F">>, <<"uB7B4", "uB7BB">>,
                    <<"uB7D0", "uB7D7">>, <<"uB7EC", "uB7F3">>, <<"uB808", "uB80F">>, <<"uB824", "uB82B">>,
                    <<"uB840", "uB847">>, <<"uB85C", "uB863">>, <<"uB878", "uB87F">>, <<"uB894", "uB89B">>,
                    <<"uB8B0", "uB8B7">>, <<"uB8CC", "uB8D3">>, <<"uB8E8", "uB8EF">>, <<"uB904", "uB90B">>,
                    <<"uB920", "uB927">>, <<"uB93C", "uB943">>, <<"uB958", "uB95F">>, <<"uB974", "uB97B">>,
                    <<"uB990", "uB997">>, <<"uB9AC", "uB9B3">>, <<"uB9C8", "uB9CF">>, <<"uB9E4", "uB9EB">>,
                    <<"uBA00", "uBA07">>, <<"uBA1C", "uBA23">>, <<"uBA38", "uBA3F">>, <<"uBA54", "uBA5B">>,
                    <<"uBA70", "uBA77">>, <<"uBA8C", "uBA93">>, <<"uBAA8", "uBAAF">>, <<"uBAC4", "uBACB">>,
                    <<"uBAE0", "uBAE7">>, <<"uBAFC", "uBB03">>, <<"uBB18", "uBB1F">>, <<"uBB34", "uBB3B">>,
                    <<"uBB50", "uBB57">>, <<"uBB6C", "uBB73">>, <<"uBB88", "uBB8F">>, <<"uBBA4", "uBBAB">>,
                    <<"uBBC0", "uBBC7">>, <<"uBBDC", "uBBE3">>, <<"uBBF8", "uBBFF">>, <<"uBC14", "uBC1B">>,
                    <<"uBC30", "uBC37">>, <<"uBC4C", "uBC53">>, <<"uBC68", "uBC6F">>, <<"uBC84", "uBC8B">>,
                    <<"uBCA0", "uBCA7">>, <<"uBCBC", "uBCC3">>, <<"uBCD8", "uBCDF">>, <<"uBCF4", "uBCFB">>,
                    <<"uBD10", "uBD17">>, <<"uBD2C", "uBD33">>, <<"uBD48", "uBD4F">>, <<"uBD64", "uBD6B">>,
                    <<"uBD80", "uBD87">>, <<"uBD9C", "uBDA3">>, <<"uBDB8", "uBDBF">>, <<"uBDD4", "uBDDB">>,
                    <<"uBDF0", "uBDF7">>, <<"uBE0C", "uBE13">>, <<"uBE28", "uBE2F">>, <<"uBE44", "uBE4B">>,
                    <<"uBE60", "uBE67">>, <<"uBE7C", "uBE83">>, <<"uBE98", "uBE9F">>, <<"uBEB4", "uBEBB">>,
                    <<"uBED0", "uBED7">>, <<"uBEEC", "uBEF3">>, <<"uBF08", "uBF0F">>, <<"uBF24", "uBF2B">>,
                    <<"uBF40", "uBF47">>, <<"uBF5C", "uBF63">>, <<"uBF78", "uBF7F">>, <<"uBF94", "uBF9B">>,
                    <<"uBFB0", "uBFB7">>, <<"uBFCC", "uBFD3">>, <<"uBFE8", "uBFEF">>, <<"uC004", "uC00B">>,
                    <<"uC020", "uC027">>, <<"uC03C", "uC043">>, <<"uC058", "uC05F">>, <<"uC074", "uC07B">>,
                    <<"uC090", "uC097">>, <<"uC0AC", "uC0B3">>, <<"uC0C8", "uC0CF">>, <<"uC0E4", "uC0EB">>,
                    <<"uC100", "uC107">>, <<"uC11C", "uC123">>, <<"uC138", "uC13F">>, <<"uC154", "uC15B">>,
                    <<"uC170", "uC177">>, <<"uC18C", "uC193">>, <<"uC1A8", "uC1AF">>, <<"uC1C4", "uC1CB">>,
                    <<"uC1E0", "uC1E7">>, <<"uC1FC", "uC203">>, <<"uC218", "uC21F">>, <<"uC234", "uC23B">>,
                    <<"uC250", "uC257">>, <<"uC26C", "uC273">>, <<"uC288", "uC28F">>, <<"uC2A4", "uC2AB">>,
                    <<"uC2C0", "uC2C7">>, <<"uC2DC", "uC2E3">>, <<"uC2F8", "uC2FF">>, <<"uC314", "uC31B">>,
                    <<"uC330", "uC337">>, <<"uC34C", "uC353">>, <<"uC368", "uC36F">>, <<"uC384", "uC38B">>,
                    <<"uC3A0", "uC3A7">>, <<"uC3BC", "uC3C3">>, <<"uC3D8", "uC3DF">>, <<"uC3F4", "uC3FB">>,
                    <<"uC410", "uC417">>, <<"uC42C", "uC433">>, <<"uC448", "uC44F">>, <<"uC464", "uC46B">>,
                    <<"uC480", "uC487">>, <<"uC49C", "uC4A3">>, <<"uC4B8", "uC4BF">>, <<"uC4D4", "uC4DB">>,
                    <<"uC4F0", "uC4F7">>, <<"uC50C", "uC513">>, <<"uC528", "uC52F">>, <<"uC544", "uC54B">>,
                    <<"uC560", "uC567">>, <<"uC57C", "uC583">>, <<"uC598", "uC59F">>, <<"uC5B4", "uC5BB">>,
                    <<"uC5D0", "uC5D7">>, <<"uC5EC", "uC5F3">>, <<"uC608", "uC60F">>, <<"uC624", "uC62B">>,
                    <<"uC640", "uC647">>, <<"uC65C", "uC663">>, <<"uC678", "uC67F">>, <<"uC694", "uC69B">>,
                    <<"uC6B0", "uC6B7">>, <<"uC6CC", "uC6D3">>, <<"uC6E8", "uC6EF">>, <<"uC704", "uC70B">>,
                    <<"uC720", "uC727">>, <<"uC73C", "uC743">>, <<"uC758", "uC75F">>, <<"uC774", "uC77B">>,
                    <<"uC790", "uC797">>, <<"uC7AC", "uC7B3">>, <<"uC7C8", "uC7CF">>, <<"uC7E4", "uC7EB">>,
                    <<"uC800", "uC807">>, <<"uC81C", "uC823">>, <<"uC838", "uC83F">>, <<"uC854", "uC85B">>,
                    <<"uC870", "uC877">>, <<"uC88C", "uC893">>, <<"uC8A8", "uC8AF">>, <<"uC8C4", "uC8CB">>,
                    <<"uC8E0", "uC8E7">>, <<"uC8FC", "uC903">>, <<"uC918", "uC91F">>, <<"uC934", "uC93B">>,
                    <<"uC950", "uC957">>, <<"uC96C", "uC973">>, <<"uC988", "uC98F">>, <<"uC9A4", "uC9AB">>,
                    <<"uC9C0", "uC9C7">>, <<"uC9DC", "uC9E3">>, <<"uC9F8", "uC9FF">>, <<"uCA14", "uCA1B">>,
                    <<"uCA30", "uCA37">>, <<"uCA4C", "uCA53">>, <<"uCA68", "uCA6F">>, <<"uCA84", "uCA8B">>,
                    <<"uCAA0", "uCAA7">>, <<"uCABC", "uCAC3">>, <<"uCAD8", "uCADF">>, <<"uCAF4", "uCAFB">>,
                    <<"uCB10", "uCB17">>, <<"uCB2C", "uCB33">>, <<"uCB48", "uCB4F">>, <<"uCB64", "uCB6B">>,
                    <<"uCB80", "uCB87">>, <<"uCB9C", "uCBA3">>, <<"uCBB8", "uCBBF">>, <<"uCBD4", "uCBDB">>,
                    <<"uCBF0", "uCBF7">>, <<"uCC0C", "uCC13">>, <<"uCC28", "uCC2F">>, <<"uCC44", "uCC4B">>,
                    <<"uCC60", "uCC67">>, <<"uCC7C", "uCC83">>, <<"uCC98", "uCC9F">>, <<"uCCB4", "uCCBB">>,
                    <<"uCCD0", "uCCD7">>, <<"uCCEC", "uCCF3">>, <<"uCD08", "uCD0F">>, <<"uCD24", "uCD2B">>,
                    <<"uCD40", "uCD47">>, <<"uCD5C", "uCD63">>, <<"uCD78", "uCD7F">>, <<"uCD94", "uCD9B">>,
                    <<"uCDB0", "uCDB7">>, <<"uCDCC", "uCDD3">>, <<"uCDE8", "uCDEF">>, <<"uCE04", "uCE0B">>,
                    <<"uCE20", "uCE27">>, <<"uCE3C", "uCE43">>, <<"uCE58", "uCE5F">>, <<"uCE74", "uCE7B">>,
                    <<"uCE90", "uCE97">>, <<"uCEAC", "uCEB3">>, <<"uCEC8", "uCECF">>, <<"uCEE4", "uCEEB">>,
                    <<"uCF00", "uCF07">>, <<"uCF1C", "uCF23">>, <<"uCF38", "uCF3F">>, <<"uCF54", "uCF5B">>,
                    <<"uCF70", "uCF77">>, <<"uCF8C", "uCF93">>, <<"uCFA8", "uCFAF">>, <<"uCFC4", "uCFCB">>,
                    <<"uCFE0", "uCFE7">>, <<"uCFFC", "uD003">>, <<"uD018", "uD01F">>, <<"uD034", "uD03B">>,
                    <<"uD050", "uD057">>, <<"uD06C", "uD073">>, <<"uD088", "uD08F">>, <<"uD0A4", "uD0AB">>,
                    <<"uD0C0", "uD0C7">>, <<"uD0DC", "uD0E3">>, <<"uD0F8", "uD0FF">>, <<"uD114", "uD11B">>,
                    <<"uD130", "uD137">>, <<"uD14C", "uD153">>, <<"uD168", "uD16F">>, <<"uD184", "uD18B">>,
                    <<"uD1A0", "uD1A7">>, <<"uD1BC", "uD1C3">>, <<"uD1D8", "uD1DF">>, <<"uD1F4", "uD1FB">>,
                    <<"uD210", "uD217">>, <<"uD22C", "uD233">>, <<"uD248", "uD24F">>, <<"uD264", "uD26B">>,
                    <<"uD280", "uD287">>, <<"uD29C", "uD2A3">>, <<"uD2B8", "uD2BF">>, <<"uD2D4", "uD2DB">>,
                    <<"uD2F0", "uD2F7">>, <<"uD30C", "uD313">>, <<"uD328", "uD32F">>, <<"uD344", "uD34B">>,
                    <<"uD360", "uD367">>, <<"uD37C", "uD383">>, <<"uD398", "uD39F">>, <<"uD3B4", "uD3BB">>,
                    <<"uD3D0", "uD3D7">>, <<"uD3EC", "uD3F3">>, <<"uD408", "uD40F">>, <<"uD424", "uD42B">>,
                    <<"uD440", "uD447">>, <<"uD45C", "uD463">>, <<"uD478", "uD47F">>, <<"uD494", "uD49B">>,
                    <<"uD4B0", "uD4B7">>, <<"uD4CC", "uD4D3">>, <<"uD4E8", "uD4EF">>, <<"uD504", "uD50B">>,
                    <<"uD520", "uD527">>, <<"uD53C", "uD543">>, <<"uD558", "uD55F">>, <<"uD574", "uD57B">>,
                    <<"uD590", "uD597">>, <<"uD5AC", "uD5B3">>, <<"uD5C8", "uD5CF">>, <<"uD5E4", "uD5EB">>,
                    <<"uD600", "uD607">>, <<"uD61C", "uD623">>, <<"uD638", "uD63F">>, <<"uD654", "uD65B">>,
                    <<"uD670", "uD677">>, <<"uD68C", "uD693">>, <<"uD6A8", "uD6AF">>, <<"uD6C4", "uD6CB">>,
                    <<"uD6E0", "uD6E7">>, <<"uD6FC", "uD703">>, <<"uD718", "uD71F">>, <<"uD734", "uD73B">>,
                    <<"uD750", "uD757">>, <<"uD76C", "uD773">>, <<"uD788", "uD78F">>},
         u11AF |-> {<<"uAC00", "uAC08">>, <<"uAC1C", "uAC24">>, <<"uAC38", "uAC40">>, <<"uAC54", "uAC5C">>,
                    <<"uAC70", "uAC78">>, <<"uAC8C", "uAC94">>, <<"uACA8", "uACB0">>, <<"uACC4", "uACCC">>,
                    <<"uACE0", "uACE8">>, <<"uACFC", "uAD04">>, <<"uAD18", "uAD20">>, <<"uAD34", "uAD3C">>,
                    <<"uAD50", "uAD58">>, <<"uAD6C", "uAD74">>, <<"uAD88", "uAD90">>, <<"uADA4", "uADAC">>,
                    <<"uADC0", "uADC8">>, <<"uADDC", "uADE4">>, <<"uADF8", "uAE00">>, <<"uAE14", "uAE1C">>,
                    <<"uAE30", "uAE38">>, <<"uAE4C", "uAE54">>, <<"uAE68", "uAE70">>, <<"uAE84", "uAE8C">>,
                    <<"uAEA0", "uAEA8">>, <<"uAEBC", "uAEC4">>, <<"uAED8", "uAEE0">>, <<"uAEF4", "uAEFC">>,
                    <<"uAF10", "uAF18">>, <<"uAF2C", "uAF34">>, <<"uAF48", "uAF50">>, <<"uAF64", "uAF6C">>,
                    <<"uAF80", "uAF88">>, <<"uAF9C", "uAFA4">>, <<"uAFB8", "uAFC0">>, <<"uAFD4", "uAFDC">>,
                    <<"uAFF0", "uAFF8">>, <<"uB00C", "uB014">>, <<"uB028", "uB030">>, <<"uB044", "uB04C">>,
                    <<"uB060", "uB068">>, <<"uB07C", "uB084">>, <<"uB098", "uB0A0">>, <<"uB0B4", "uB0BC">>,
                    <<"uB0D0", "uB0D8">>, <<"uB0EC", "uB0F4">>, <<"uB108", "uB110">>, <<"uB124", "uB12C">>,
                    <<"uB140", "uB148">>, <<"uB15C", "uB164">>, <<"uB178", "uB180">>, <<"uB194", "uB19C">>,
                    <<"uB1B0", "uB1B8">>, <<"uB1CC", "uB1D4">>, <<"uB1E8", "uB1F0">>, <<"uB204", "uB20C">>,
                    <<"uB220", "uB228">>, <<"uB23C", "uB244">>, <<"uB258", "uB260">>, <<"uB274", "uB27C">>,
                    <<"uB290", "uB298">>, <<"uB2AC", "uB2B4">>, <<"uB2C8", "uB2D0">>, <<"uB2E4", "uB2EC">>,
                    <<"uB300", "uB308">>, <<"uB31C", "uB324">>, <<"uB338", "uB340">>, <<"uB354", "uB35C">>,
                    <<"uB370", "uB378">>, <<"uB38C", "uB394">>, <<"uB3A8", "uB3B0">>, <<"uB3C4", "uB3CC">>,
                    <<"uB3E0", "uB3E8">>, <<"uB3FC", "uB404">>, <<"uB418", "uB420">>, <<"uB434", "uB43C">>,
                    <<"uB450", "uB458">>, <<"uB46C", "uB474">>, <<"uB488", "uB490">>, <<"uB4A4", "uB4AC">>,
                    <<"uB4C0", "uB4C8">>, <<"uB4DC", "uB4E4">>, <<"uB4F8", "uB500">>, <<"uB514", "uB51C">>,
                    <<"uB530", "uB538">>, <<"uB54C", "uB554">>, <<"uB568", "uB570">>, <<"uB584", "uB58C">>,
                    <<"uB5A0", "uB5A8">>, <<"uB5BC", "uB5C4">>, <<"uB5D8", "uB5E0">>, <<"uB5F4", "uB5FC">>,
                    <<"uB610", "uB618">>, <<"uB62C", "uB634">>, <<"uB648", "uB650">>, <<"uB664", "uB66C">>,
                    <<"uB680", "uB688">>, <<"uB69C", "uB6A4">>, <<"uB6B8", "uB6C0">>, <<"uB6D4", "uB6DC">>,
                    <<"uB6F0", "uB6F8">>, <<"uB70C", "uB714">>, <<"uB728", "uB730">>, <<"uB744", "uB74C">>,
                    <<"uB760", "uB768">>, <<"uB77C", "uB784">>, <<"uB798", "uB7A0">>, <<"uB7B4", "uB7BC">>,
                    <<"uB7D0", "uB7D8">>, <<"uB7EC", "uB7F4">>, <<"uB808", "uB810">>, <<"uB824", "uB82C">>,
                    <<"uB840", "uB848">>, <<"uB85C", "uB864">>, <<"uB878", "uB880">>, <<"uB894", "uB89C">>,
                    <<"uB8B0", "uB8B8">>, <<"uB8CC", "uB8D4">>, <<"uB8E8", "uB8F0">>, <<"uB904", "uB90C">>,
                    <<"uB920", "uB928">>, <<"uB93C", "uB944">>, <<"uB958", "uB960">>, <<"uB974", "uB97C">>,
                    <<"uB990", "uB998">>, <<"uB9AC", "uB9B4">>, <<"uB9C8", "uB9D0">>, <<"uB9E4", "uB9EC">>,
                    <<"uBA00", "uBA08">>, <<"uBA1C", "uBA24">>, <<"uBA38", "uBA40">>, <<"uBA54", "uBA5C">>,
                    <<"uBA70", "uBA78">>, <<"uBA8C", "uBA94">>, <<"uBAA8", "uBAB0">>, <<"uBAC4", "uBACC">>,
                    <<"uBAE0", "uBAE8">>, <<"uBAFC", "uBB04">>, <<"uBB18", "uBB20">>, <<"uBB34", "uBB3C">>,
                    <<"uBB50", "uBB58">>, <<"uBB6C", "uBB74">>, <<"uBB88", "uBB90">>, <<"uBBA4", "uBBAC">>,
                    <<"uBBC0", "uBBC8">>, <<"uBBDC", "uBBE4">>, <<"uBBF8", "uBC00">>, <<"uBC14", "uBC1C">>,
                    <<"uBC30", "uBC38">>, <<"uBC4C", "uBC54">>, <<"uBC68", "uBC70">>, <<"uBC84", "uBC8C">>,
                    <<"uBCA0", "uBCA8">>, <<"uBCBC", "uBCC4">>, <<"uBCD8", "uBCE0">>, <<"uBCF4", "uBCFC">>,
                    <<"uBD10", "uBD18">>, <<"uBD2C", "uBD34">>, <<"uBD48", "uBD50">>, <<"uBD64", "uBD6C">>,
                    <<"uBD80", "uBD88">>, <<"uBD9C", "uBDA4">>, <<"uBDB8", "uBDC0">>, <<"uBDD4", "uBDDC">>,
                    <<"uBDF0", "uBDF8">>, <<"uBE0C", "uBE14">>, <<"uBE28", "uBE30">>, <<"uBE44", "uBE4C">>,
                    <<"uBE60", "uBE68">>, <<"uBE7C", "uBE84">>, <<"uBE98", "uBEA0">>, <<"uBEB4", "uBEBC">>,
                    <<"uBED0", "uBED8">>, <<"uBEEC", "uBEF4">>, <<"uBF08", "uBF10">>, <<"uBF24", "uBF2C">>,
                    <<"uBF40", "uBF48">>, <<"uBF5C", "uBF64">>, <<"uBF78", "uBF80">>, <<"uBF94", "uBF9C">>,
                    <<"uBFB0", "uBFB8">>, <<"uBFCC", "uBFD4">>, <<"uBFE8", "uBFF0">>, <<"uC004", "uC00C">>,
                    <<"uC020", "uC028">>, <<"uC03C", "uC044">>, <<"uC058", "uC060">>, <<"uC074", "uC07C">>,
                    <<"uC090", "uC098">>, <<"uC0AC", "uC0B4">>, <<"uC0C8", "uC0D0">>, <<"uC0E4", "uC0EC">>,
                    <<"uC100", "uC108">>, <<"uC11C", "uC124">>, <<"uC138", "uC140">>, <<"uC154", "uC15C">>,
                    <<"uC170", "uC178">>, <<"uC18C", "uC194">>, <<"uC1A8", "uC1B0">>, <<"uC1C4", "uC1CC">>,
                    <<"uC1E0", "uC1E8">>, <<"uC1FC", "uC204">>, <<"uC218", "uC220">>, <<"uC234", "uC23C">>,
                    <<"uC250", "uC258">>, <<"uC26C", "uC274">>, <<"uC288", "uC290">>, <<"uC2A4", "uC2AC">>,
                    <<"uC2C0", "uC2C8">>, <<"uC2DC", "uC2E4">>, <<"uC2F8", "uC300">>, <<"uC314", "uC31C">>,
                    <<"uC330", "uC338">>, <<"uC34C", "uC354">>, <<"uC368", "uC370">>, <<"uC384", "uC38C">>,
                    <<"uC3A0", "uC3A8">>, <<"uC3BC", "uC3C4">>, <<"uC3D8", "uC3E0">>, <<"uC3F4", "uC3FC">>,
                    <<"uC410", "uC418">>, <<"uC42C", "uC434">>, <<"uC448", "uC450">>, <<"uC464", "uC46C">>,
                    <<"uC480", "uC488">>, <<"uC49C", "uC4A4">>, <<"uC4B8", "uC4C0">>, <<"uC4D4", "uC4DC">>,
                    <<"uC4F0", "uC4F8">>, <<"uC50C", "uC514">>, <<"uC528", "uC530">>, <<"uC544", "uC54C">>,
                    <<"uC560", "uC568">>, <<"uC57C", "uC584">>, <<"uC598", "uC5A0">>, <<"uC5B4", "uC5BC">>,
                    <<"uC5D0", "uC5D8">>, <<"uC5EC", "uC5F4">>, <<"uC608", "uC610">>, <<"uC624", "uC62C">>,
                    <<"uC640", "uC648">>, <<"uC65C", "uC664">>, <<"uC678", "uC680">>, <<"uC694", "uC69C">>,
                    <<"uC6B0", "uC6B8">>, <<"uC6CC", "uC6D4">>, <<"uC6E8", "uC6F0">>, <<"uC704", "uC70C">>,
                    <<"uC720", "uC728">>, <<"uC73C", "uC744">>, <<"uC758", "uC760">>, <<"uC774", "uC77C">>,
                    <<"uC790", "uC798">>, <<"uC7AC", "uC7B4">>, <<"uC7C8", "uC7D0">>, <<"uC7E4", "uC7EC">>,
                    <<"uC800", "uC808">>, <<"uC81C", "uC824">>, <<"uC838", "uC840">>, <<"uC854", "uC85C">>,
                    <<"uC870", "uC878">>, <<"uC88C", "uC894">>, <<"uC8A8", "uC8B0">>, <<"uC8C4", "uC8CC">>,
                    <<"uC8E0", "uC8E8">>, <<"uC8FC", "uC904">>, <<"uC918", "uC920">>, <<"uC934", "uC93C">>,
                    <<"uC950", "uC958">>, <<"uC96C", "uC974">>, <<"uC988", "uC990">>, <<"uC9A4", "uC9AC">>,
                    <<"uC9C0", "uC9C8">>, <<"uC9DC", "uC9E4">>, <<"uC9F8", "uCA00">>, <<"uCA14", "uCA1C">>,
                    <<"uCA30", "uCA38">>, <<"uCA4C", "uCA54">>, <<"uCA68", "uCA70">>, <<"uCA84", "uCA8C">>,
                    <<"uCAA0", "uCAA8">>, <<"uCABC", "uCAC4">>, <<"uCAD8", "uCAE0">>, <<"uCAF4", "uCAFC">>,
                    <<"uCB10", "uCB18">>, <<"uCB2C", "uCB34">>, <<"uCB48", "uCB50">>, <<"uCB64", "uCB6C">>,
                    <<"uCB80", "uCB88">>, <<"uCB9C", "uCBA4">>, <<"uCBB8", "uCBC0">>, <<"uCBD4", "uCBDC">>,
                    <<"uCBF0", "uCBF8">>, <<"uCC0C", "uCC14">>, <<"uCC28", "uCC30">>, <<"uCC44", "uCC4C">>,
                    <<"uCC60", "uCC68">>, <<"uCC7C", "uCC84">>, <<"uCC98", "uCCA0">>, <<"uCCB4", "uCCBC">>,
                    <<"uCCD0", "uCCD8">>, <<"uCCEC", "uCCF4">>, <<"uCD08", "uCD10">>, <<"uCD24", "uCD2C">>,
                    <<"uCD40", "uCD48">>, <<"uCD5C", "uCD64">>, <<"uCD78", "uCD80">>, <<"uCD94", "uCD9C">>,
                    <<"uCDB0", "uCDB8">>, <<"uCDCC", "uCDD4">>, <<"uCDE8", "uCDF0">>, <<"uCE04", "uCE0C">>,
                    <<"uCE20", "uCE28">>, <<"uCE3C", "uCE44">>, <<"uCE58", "uCE60">>, <<"uCE74", "uCE7C">>,
                    <<"uCE90", "uCE98">>, <<"uCEAC", "uCEB4">>, <<"uCEC8", "uCED0">>, <<"uCEE4", "uCEEC">>,
                    <<"uCF00", "uCF08">>, <<"uCF1C", "uCF24">>, <<"uCF38", "uCF40">>, <<"uCF54", "uCF5C">>,
                    <<"uCF70", "uCF78">>, <<"uCF8C", "uCF94">>, <<"uCFA8", "uCFB0">>, <<"uCFC4", "uCFCC">>,
                    <<"uCFE0", "uCFE8">>, <<"uCFFC", "uD004">>, <<"uD018", "uD020">>, <<"uD034", "uD03C">>,
                    <<"uD050", "uD058">>, <<"uD06C", "uD074">>, <<"uD088", "uD090">>, <<"uD0A4", "uD0AC">>,
                    <<"uD0C0", "uD0C8">>, <<"uD0DC", "uD0E4">>, <<"uD0F8", "uD100">>, <<"uD114", "uD11C">>,
                    <<"uD130", "uD138">>, <<"uD14C", "uD154">>, <<"uD168", "uD170">>, <<"uD184", "uD18C">>,
                    <<"uD1A0", "uD1A8">>, <<"uD1BC", "uD1C4">>, <<"uD1D8", "uD1E0">>, <<"uD1F4", "uD1FC">>,
                    <<"uD210", "uD218">>, <<"uD22C", "uD234">>, <<"uD248", "uD250">>, <<"uD264", "uD26C">>,
                    <<"uD280", "uD288">>, <<"uD29C", "uD2A4">>, <<"uD2B8", "uD2C0">>, <<"uD2D4", "uD2DC">>,
                    <<"uD2F0", "uD2F8">>, <<"uD30C", "uD314">>, <<"uD328", "uD330">>, <<"uD344", "uD34C">>,
                    <<"uD360", "uD368">>, <<"uD37C", "uD384">>, <<"uD398", "uD3A0">>, <<"uD3B4", "uD3BC">>,
                    <<"uD3D0", "uD3D8">>, <<"uD3EC", "uD3F4">>, <<"uD408", "uD410">>, <<"uD424", "uD42C">>,
                    <<"uD440", "uD448">>, <<"uD45C", "uD464">>, <<"uD478", "uD480">>, <<"uD494", "uD49C">>,
                    <<"uD4B0", "uD4B8">>, <<"uD4CC", "uD4D4">>, <<"uD4E8", "uD4F0">>, <<"uD504", "uD50C">>,
                    <<"uD520", "uD528">>, <<"uD53C", "uD544">>, <<"uD558", "uD560">>, <<"uD574", "uD57C">>,
                    <<"uD590", "uD598">>, <<"uD5AC", "uD5B4">>, <<"uD5C8", "uD5D0">>, <<"uD5E4", "uD5EC">>,
                    <<"uD600", "uD608">>, <<"uD61C", "uD624">>, <<"uD638", "uD640">>, <<"uD654", "uD65C">>,
                    <<"uD670", "uD678">>, <<"uD68C", "uD694">>, <<"uD6A8", "uD6B0">>, <<"uD6C4", "uD6CC">>,
                    <<"uD6E0", "uD6E8">>, <<"uD6FC", "uD704">>, <<"uD718", "uD720">>, <<"uD734", "uD73C">>,
                    <<"uD750", "uD758">>, <<"uD76C", "uD774">>, <<"uD788", "uD790">>},
         u11B0 |-> {<<"uAC00", "uAC09">>, <<"uAC1C", "uAC25">>, <<"uAC38", "uAC41">>, <<"uAC54", "uAC5D">>,
                    <<"uAC70", "uAC79">>, <<"uAC8C", "uAC95">>, <<"uACA8", "uACB1">>, <<"uACC4", "uACCD">>,
                    <<"uACE0", "uACE9">>, <<"uACFC", "uAD05">>, <<"uAD18", "uAD21">>, <<"uAD34", "uAD3D">>,
                    <<"uAD50", "uAD59">>, <<"uAD6C", "uAD75">>, <<"uAD88", "uAD91">>, <<"uADA4", "uADAD">>,
                    <<"uADC0", "uADC9">>, <<"uADDC", "uADE5">>, <<"uADF8", "uAE01">>, <<"uAE14", "uAE1D">>,
                    <<"uAE30", "uAE39">>, <<"uAE4C", "uAE55">>, <<"uAE68", "uAE71">>, <<"uAE84", "uAE8D">>,
                    <<"uAEA0", "uAEA9">>, <<"uAEBC", "uAEC5">>, <<"uAED8", "uAEE1">>, <<"uAEF4", "uAEFD">>,
                    <<"uAF10", "uAF19">>, <<"uAF2C", "uAF35">>, <<"uAF48", "uAF51">>, <<"uAF64", "uAF6D">>,
                    <<"uAF80", "uAF89">>, <<"uAF9C", "uAFA5">>, <<"uAFB8", "uAFC1">>, <<"uAFD4", "uAFDD">>,
                    <<"uAFF0", "uAFF9">>, <<"uB00C", "uB015">>, <<"uB028", "uB031">>, <<"uB044", "uB04D">>,
                    <<"uB060", "uB069">>, <<"uB07C", "uB085">>, <<"uB098", "uB0A1">>, <<"uB0B4", "uB0BD">>,
                    <<"uB0D0", "uB0D9">>, <<"uB0EC", "uB0F5">>, <<"uB108", "uB111">>, <<"uB124", "uB12D">>,
                    <<"uB140", "uB149">>, <<"uB15C", "uB165">>, <<"uB178", "uB181">>, <<"uB194", "uB19D">>,
                    <<"uB1B0", "uB1B9">>, <<"uB1CC", "uB1D5">>, <<"uB1E8", "uB1F1">>, <<"uB204", "uB20D">>,
                    <<"uB220", "uB229">>, <<"uB23C", "uB245">>, <<"uB258", "uB261">>, <<"uB274", "uB27D">>,
                    <<"uB290", "uB299">>, <<"uB2AC", "uB2B5">>, <<"uB2C8", "uB2D1">>, <<"uB2E4", "uB2ED">>,
                    <<"uB300", "uB309">>, <<"uB31C", "uB325">>, <<"uB338", "uB341">>, <<"uB354", "uB35D">>,
                    <<"uB370", "uB379">>, <<"uB38C", "uB395">>, <<"uB3A8", "uB3B1">>, <<"uB3C4", "uB3CD">>,
                    <<"uB3E0", "uB3E9">>, <<"uB3FC", "uB405">>, <<"uB418", "uB421">>, <<"uB434", "uB43D">>,
                    <<"uB450", "uB459">>, <<"uB46C", "uB475">>, <<"uB488", "uB491">>, <<"uB4A4", "uB4AD">>,
                    <<"uB4C0", "uB4C9">>, <<"uB4DC", "uB4E5">>, <<"uB4F8", "uB501">>, <<"uB514", "uB51D">>,
                    <<"uB530", "uB539">>, <<"uB54C", "uB555">>, <<"uB568", "uB571">>, <<"uB584", "uB58D">>,
                    <<"uB5A0", "uB5A9">>, <<"uB5BC", "uB5C5">>, <<"uB5D8", "uB5E1">>, <<"uB5F4", "uB5FD">>,
                    <<"uB610", "uB619">>, <<"uB62C", "uB635">>, <<"uB648", "uB651">>, <<"uB664", "uB66D">>,
                    <<"uB680", "uB689">>, <<"uB69C", "uB6A5">>, <<"uB6B8", "uB6C1">>, <<"uB6D4", "uB6DD">>,
                    <<"uB6F0", "uB6F9">>, <<"uB70C", "uB715">>, <<"uB728", "uB731">>, <<"uB744", "uB74D">>,
                    <<"uB760", "uB769">>, <<"uB77C", "uB785">>, <<"uB798", "uB7A1">>, <<"uB7B4", "uB7BD">>,
                    <<"uB7D0", "uB7D9">>, <<"uB7EC", "uB7F5">>, <<"uB808", "uB811">>, <<"uB824", "uB82D">>,
                    <<"uB840", "uB849">>, <<"uB85C", "uB865">>, <<"uB878", "uB881">>, <<"uB894", "uB89D">>,
                    <<"uB8B0", "uB8B9">>, <<"uB8CC", "uB8D5">>, <<"uB8E8", "uB8F1">>, <<"uB904", "uB90D">>,
                    <<"uB920", "uB929">>, <<"uB93C", "uB945">>, <<"uB958", "uB961">>, <<"uB974", "uB97D">>,
                    <<"uB990", "uB999">>, <<"uB9AC", "uB9B5">>, <<"uB9C8", "uB9D1">>, <<"uB9E4", "uB9ED">>,
                    <<"uBA00", "uBA09">>, <<"uBA1C", "uBA25">>, <<"uBA38", "uBA41">>, <<"uBA54", "uBA5D">>,
                    <<"uBA70", "uBA79">>, <<"uBA8C", "uBA95">>, <<"uBAA8", "uBAB1">>, <<"uBAC4", "uBACD">>,
                    <<"uBAE0", "uBAE9">>, <<"uBAFC", "uBB05">>, <<"uBB18", "uBB21">>, <<"uBB34", "uBB3D">>,
                    <<"uBB50", "uBB59">>, <<"uBB6C", "uBB75">>, <<"uBB88", "uBB91">>, <<"uBBA4", "uBBAD">>,
                    <<"uBBC0", "uBBC9">>, <<"uBBDC", "uBBE5">>, <<"uBBF8", "uBC01">>, <<"uBC14", "uBC1D">>,
                    <<"uBC30", "uBC39">>, <<"uBC4C", "uBC55">>, <<"uBC68", "uBC71">>, <<"uBC84", "uBC8D">>,
                    <<"uBCA0", "uBCA9">>, <<"uBCBC", "uBCC5">>, <<"uBCD8", "uBCE1">>, <<"uBCF4", "uBCFD">>,
                    <<"uBD10", "uBD19">>, <<"uBD2C", "uBD35">>, <<"uBD48", "uBD51">>, <<"uBD64", "uBD6D">>,
                    <<"uBD80", "uBD89">>, <<"uBD9C", "uBDA5">>, <<"uBDB8", "uBDC1">>, <<"uBDD4", "uBDDD">>,
                    <<"uBDF0", "uBDF9">>, <<"uBE0C", "uBE15">>, <<"uBE28", "uBE31">>, <<"uBE44", "uBE4D">>,
                    <<"uBE60", "uBE69">>, <<"uBE7C", "uBE85">>, <<"uBE98", "uBEA1">>, <<"uBEB4", "uBEBD">>,
                    <<"uBED0", "uBED9">>, <<"uBEEC", "uBEF5">>, <<"uBF08", "uBF11">>, <<"uBF24", "uBF2D">>,
                    <<"uBF40", "uBF49">>, <<"uBF5C", "uBF65">>, <<"uBF78", "uBF81">>, <<"uBF94", "uBF9D">>,
                    <<"uBFB0", "uBFB9">>, <<"uBFCC", "uBFD5">>, <<"uBFE8", "uBFF1">>, <<"uC004", "uC00D">>,
                    <<"uC020", "uC029">>, <<"uC03C", "uC045">>, <<"uC058", "uC061">>, <<"uC074", "uC07D">>,
                    <<"uC090", "uC099">>, <<"uC0AC", "uC0B5">>, <<"uC0C8", "uC0D1">>, <<"uC0E4", "uC0ED">>,
                    <<"uC100", "uC109">>, <<"uC11C", "uC125">>, <<"uC138", "uC141">>, <<"uC154", "uC15D">>,
                    <<"uC170", "uC179">>, <<"uC18C", "uC195">>, <<"uC1A8", "uC1B1">>, <<"uC1C4", "uC1CD">>,
                    <<"uC1E0", "uC1E9">>, <<"uC1FC", "uC205">>, <<"uC218", "uC221">>, <<"uC234", "uC23D">>,
                    <<"uC250", "uC259">>, <<"uC26C", "uC275">>, <<"uC288", "uC291">>, <<"uC2A4", "uC2AD">>,
                    <<"uC2C0", "uC2C9">>, <<"uC2DC", "uC2E5">>, <<"uC2F8", "uC301">>, <<"uC314", "uC31D">>,
                    <<"uC330", "uC339">>, <<"uC34C", "uC355">>, <<"uC368", "uC371">>, <<"uC384", "uC38D">>,
                    <<"uC3A0", "uC3A9">>, <<"uC3BC", "uC3C5">>, <<"uC3D8", "uC3E1">>, <<"uC3F4", "uC3FD">>,
                    <<"uC410", "uC419">>, <<"uC42C", "uC435">>, <<"uC448", "uC451">>, <<"uC464", "uC46D">>,
                    <<"uC480", "uC489">>, <<"uC49C", "uC4A5">>, <<"uC4B8", "uC4C1">>, <<"uC4D4", "uC4DD">>,
                    <<"uC4F0", "uC4F9">>, <<"uC50C", "uC515">>, <<"uC528", "uC531">>, <<"uC544", "uC54D">>,
                    <<"uC560", "uC569">>, <<"uC57C", "uC585">>, <<"uC598", "uC5A1">>, <<"uC5B4", "uC5BD">>,
                    <<"uC5D0", "uC5D9">>, <<"uC5EC", "uC5F5">>, <<"uC608", "uC611">>, <<"uC624", "uC62D">>,
                    <<"uC640", "uC649">>, <<"uC65C", "uC665">>, <<"uC678", "uC681">>, <<"uC694", "uC69D">>,
                    <<"uC6B0", "uC6B9">>, <<"uC6CC", "uC6D5">>, <<"uC6E8", "uC6F1">>, <<"uC704", "uC70D">>,
                    <<"uC720", "uC729">>, <<"uC73C", "uC745">>, <<"uC758", "uC761">>, <<"uC774", "uC77D">>,
                    <<"uC790", "uC799">>, <<"uC7AC", "uC7B5">>, <<"uC7C8", "uC7D1">>, <<"uC7E4", "uC7ED">>,
                    <<"uC800", "uC809">>, <<"uC81C", "uC825">>, <<"uC838", "uC841">>, <<"uC854", "uC85D">>,
                    <<"uC870", "uC879">>, <<"uC88C", "uC895">>, <<"uC8A8", "uC8B1">>, <<"uC8C4", "uC8CD">>,
                    <<"uC8E0", "uC8E9">>, <<"uC8FC", "uC905">>, <<"uC918", "uC921">>, <<"uC934", "uC93D">>,
                    <<"uC950", "uC959">>, <<"uC96C", "uC975">>, <<"uC988", "uC991">>, <<"uC9A4", "uC9AD">>,
                    <<"uC9C0", "uC9C9">>, <<"uC9DC", "uC9E5">>, <<"uC9F8", "uCA01">>, <<"uCA14", "uCA1D">>,
                    <<"uCA30", "uCA39">>, <<"uCA4C", "uCA55">>, <<"uCA68", "uCA71">>, <<"uCA84", "uCA8D">>,
                    <<"uCAA0", "uCAA9">>, <<"uCABC", "uCAC5">>, <<"uCAD8", "uCAE1">>, <<"uCAF4", "uCAFD">>,
                    <<"uCB10", "uCB19">>, <<"uCB2C", "uCB35">>, <<"uCB48", "uCB51">>, <<"uCB64", "uCB6D">>,
                    <<"uCB80", "uCB89">>, <<"uCB9C", "uCBA5">>, <<"uCBB8", "uCBC1">>, <<"uCBD4", "uCBDD">>,
                    <<"uCBF0", "uCBF9">>, <<"uCC0C", "uCC15">>, <<"uCC28", "uCC31">>, <<"uCC44", "uCC4D">>,
                    <<"uCC60", "uCC69">>, <<"uCC7C", "uCC85">>, <<"uCC98", "uCCA1">>, <<"uCCB4", "uCCBD">>,
                    <<"uCCD0", "uCCD9">>, <<"uCCEC", "uCCF5">>, <<"uCD08", "uCD11">>, <<"uCD24", "uCD2D">>,
                    <<"uCD40", "uCD49">>, <<"uCD5C", "uCD65">>, <<"uCD78", "uCD81">>, <<"uCD94", "uCD9D">>,
                    <<"uCDB0", "uCDB9">>, <<"uCDCC", "uCDD5">>, <<"uCDE8", "uCDF1">>, <<"uCE04", "uCE0D">>,
                    <<"uCE20", "uCE29">>, <<"uCE3C", "uCE45">>, <<"uCE58", "uCE61">>, <<"uCE74", "uCE7D">>,
                    <<"uCE90", "uCE99">>, <<"uCEAC", "uCEB5">>, <<"uCEC8", "uCED1">>, <<"uCEE4", "uCEED">>,
                    <<"uCF00", "uCF09">>, <<"uCF1C", "uCF25">>, <<"uCF38", "uCF41">>, <<"uCF54", "uCF5D">>,
                    <<"uCF70", "uCF79">>, <<"uCF8C", "uCF95">>, <<"uCFA8", "uCFB1">>, <<"uCFC4", "uCFCD">>,
                    <<"uCFE0", "uCFE9">>, <<"uCFFC", "uD005">>, <<"uD018", "uD021">>, <<"uD034", "uD03D">>,
                    <<"uD050", "uD059">>, <<"uD06C", "uD075">>, <<"uD088", "uD091">>, <<"uD0A4", "uD0AD">>,
                    <<"uD0C0", "uD0C9">>, <<"uD0DC", "uD0E5">>, <<"uD0F8", "uD101">>, <<"uD114", "uD11D">>,
                    <<"uD130", "uD139">>, <<"uD14C", "uD155">>, <<"uD168", "uD171">>, <<"uD184", "uD18D">>,
                    <<"uD1A0", "uD1A9">>, <<"uD1BC", "uD1C5">>, <<"uD1D8", "uD1E1">>, <<"uD1F4", "uD1FD">>,
                    <<"uD210", "uD219">>, <<"uD22C", "uD235">>, <<"uD248", "uD251">>, <<"uD264", "uD26D">>,
                    <<"uD280", "uD289">>, <<"uD29C", "uD2A5">>, <<"uD2B8", "uD2C1">>, <<"uD2D4", "uD2DD">>,
                    <<"uD2F0", "uD2F9">>, <<"uD30C", "uD315">>, <<"uD328", "uD331">>, <<"uD344", "uD34D">>,
                    <<"uD360", "uD369">>, <<"uD37C", "uD385">>, <<"uD398", "uD3A1">>, <<"uD3B4", "uD3BD">>,
                    <<"uD3D0", "uD3D9">>, <<"uD3EC", "uD3F5">>, <<"uD408", "uD411">>, <<"uD424", "uD42D">>,
                    <<"uD440", "uD449">>, <<"uD45C", "uD465">>, <<"uD478", "uD481">>, <<"uD494", "uD49D">>,
                    <<"uD4B0", "uD4B9">>, <<"uD4CC", "uD4D5">>, <<"uD4E8", "uD4F1">>, <<"uD504", "uD50D">>,
                    <<"uD520", "uD529">>, <<"uD53C", "uD545">>, <<"uD558", "uD561">>, <<"uD574", "uD57D">>,
                    <<"uD590", "uD599">>, <<"uD5AC", "uD5B5">>, <<"uD5C8", "uD5D1">>, <<"uD5E4", "uD5ED">>,
                    <<"uD600", "uD609">>, <<"uD61C", "uD625">>, <<"uD638", "uD641">>, <<"uD654", "uD65D">>,
                    <<"uD670", "uD679">>, <<"uD68C", "uD695">>, <<"uD6A8", "uD6B1">>, <<"uD6C4", "uD6CD">>,
                    <<"uD6E0", "uD6E9">>, <<"uD6FC", "uD705">>, <<"uD718", "uD721">>, <<"uD734", "uD73D">>,
                    <<"uD750", "uD759">>, <<"uD76C", "uD775">>, <<"uD788", "uD791">>},
         u11B1 |-> {<<"uAC00", "uAC0A">>, <<"uAC1C", "uAC26">>, <<"uAC38", "uAC42">>, <<"uAC54", "uAC5E">>,
                    <<"uAC70", "uAC7A">>, <<"uAC8C", "uAC96">>, <<"uACA8", "uACB2">>, <<"uACC4", "uACCE">>,
                    <<"uACE0", "uACEA">>, <<"uACFC", "uAD06">>, <<"uAD18", "uAD22">>, <<"uAD34", "uAD3E">>,
                    <<"uAD50", "uAD5A">>, <<"uAD6C", "uAD76">>, <<"uAD88", "uAD92">>, <<"uADA4", "uADAE">>,
                    <<"uADC0", "uADCA">>, <<"uADDC", "uADE6">>, <<"uADF8", "uAE02">>, <<"uAE14", "uAE1E">>,
                    <<"uAE30", "uAE3A">>, <<"uAE4C", "uAE56">>, <<"uAE68", "uAE72">>, <<"uAE84", "uAE8E">>,
                    <<"uAEA0", "uAEAA">>, <<"uAEBC", "uAEC6">>, <<"uAED8", "uAEE2">>, <<"uAEF4", "uAEFE">>,
                    <<"uAF10", "uAF1A">>, <<"uAF2C", "uAF36">>, <<"uAF48", "uAF52">>, <<"uAF64", "uAF6E">>,
                    <<"uAF80", "uAF8A">>, <<"uAF9C", "uAFA6">>, <<"uAFB8", "uAFC2">>, <<"uAFD4", "uAFDE">>,
                    <<"uAFF0", "uAFFA">>, <<"uB00C", "uB016">>, <<"uB028", "uB032">>, <<"uB044", "uB04E">>,
                    <<"uB060", "uB06A">>, <<"uB07C", "uB086">>, <<"uB098", "uB0A2">>, <<"uB0B4", "uB0BE">>,
                    <<"uB0D0", "uB0DA">>, <<"uB0EC", "uB0F6">>, <<"uB108", "uB112">>, <<"uB124", "uB12E">>,
                    <<"uB140", "uB14A">>, <<"uB15C", "uB166">>, <<"uB178", "uB182">>, <<"uB194", "uB19E">>,
                    <<"uB1B0", "uB1BA">>, <<"uB1CC", "uB1D6">>, <<"uB1E8", "uB1F2">>, <<"uB204", "uB20E">>,
                    <<"uB220", "uB22A">>, <<"uB23C", "uB246">>, <<"uB258", "uB262">>, <<"uB274", "uB27E">>,
                    <<"uB290", "uB29A">>, <<"uB2AC", "uB2B6">>, <<"uB2C8", "uB2D2">>, <<"uB2E4", "uB2EE">>,
                    <<"uB300", "uB30A">>, <<"uB31C", "uB326">>, <<"uB338", "uB342">>, <<"uB354", "uB35E">>,
                    <<"uB370", "uB37A">>, <<"uB38C", "uB396">>, <<"uB3A8", "uB3B2">>, <<"uB3C4", "uB3CE">>,
                    <<"uB3E0", "uB3EA">>, <<"uB3FC", "uB406">>, <<"uB418", "uB422">>, <<"uB434", "uB43E">>,
                    <<"uB450", "uB45A">>, <<"uB46C", "uB476">>, <<"uB488", "uB492">>, <<"uB4A4", "uB4AE">>,
                    <<"uB4C0", "uB4CA">>, <<"uB4DC", "uB4E6">>, <<"uB4F8", "uB502">>, <<"uB514", "uB51E">>,
                    <<"uB530", "uB53A">>, <<"uB54C", "uB556">>, <<"uB568", "uB572">>, <<"uB584", "uB58E">>,
                    <<"uB5A0", "uB5AA">>, <<"uB5BC", "uB5C6">>, <<"uB5D8", "uB5E2">>, <<"uB5F4", "uB5FE">>,
                    <<"uB610", "uB61A">>, <<"uB62C", "uB636">>, <<"uB648", "uB652">>, <<"uB664", "uB66E">>,
                    <<"uB680", "uB68A">>, <<"uB69C", "uB6A6">>, <<"uB6B8", "uB6C2">>, <<"uB6D4", "uB6DE">>,
                    <<"uB6F0", "uB6FA">>, <<"uB70C", "uB716">>, <<"uB728", "uB732">>, <<"uB744", "uB74E">>,
                    <<"uB760", "uB76A">>, <<"uB77C", "uB786">>, <<"uB798", "uB7A2">>, <<"uB7B4", "uB7BE">>,
                    <<"uB7D0", "uB7DA">>, <<"uB7EC", "uB7F6">>, <<"uB808", "uB812">>, <<"uB824", "uB82E">>,
                    <<"uB840", "uB84A">>, <<"uB85C", "uB866">>, <<"uB878", "uB882">>, <<"uB894", "uB89E">>,
                    <<"uB8B0", "uB8BA">>, <<"uB8CC", "uB8D6">>, <<"uB8E8", "uB8F2">>, <<"uB904", "uB90E">>,
                    <<"uB920", "uB92A">>, <<"uB93C", "uB946">>, <<"uB958", "uB962">>, <<"uB974", "uB97E">>,
                    <<"uB990", "uB99A">>, <<"uB9AC", "uB9B6">>, <<"uB9C8", "uB9D2">>, <<"uB9E4", "uB9EE">>,
                    <<"uBA00", "uBA0A">>, <<"uBA1C", "uBA26">>, <<"uBA38", "uBA42">>, <<"uBA54", "uBA5E">>,
                    <<"uBA70", "uBA7A">>, <<"uBA8C", "uBA96">>, <<"uBAA8", "uBAB2">>, <<"uBAC4", "uBACE">>,
                    <<"uBAE0", "uBAEA">>, <<"uBAFC", "uBB06">>, <<"uBB18", "uBB22">>, <<"uBB34", "uBB3E">>,
                    <<"uBB50", "uBB5A">>, <<"uBB6C", "uBB76">>, <<"uBB88", "uBB92">>, <<"uBBA4", "uBBAE">>,
                    <<"uBBC0", "uBBCA">>, <<"uBBDC", "uBBE6">>, <<"uBBF8", "uBC02">>, <<"uBC14", "uBC1E">>,
                    <<"uBC30", "uBC3A">>, <<"uBC4C", "uBC56">>, <<"uBC68", "uBC72">>, <<"uBC84", "uBC8E">>,
                    <<"uBCA0", "uBCAA">>, <<"uBCBC", "uBCC6">>, <<"uBCD8", "uBCE2">>, <<"uBCF4", "uBCFE">>,
                    <<"uBD10", "uBD1A">>, <<"uBD2C", "uBD36">>, <<"uBD48", "uBD52">>, <<"uBD64", "uBD6E">>,
                    <<"uBD80", "uBD8A">>, <<"uBD9C", "uBDA6">>, <<"uBDB8", "uBDC2">>, <<"uBDD4", "uBDDE">>,
                    <<"uBDF0", "uBDFA">>, <<"uBE0C", "uBE16">>, <<"uBE28", "uBE32">>, <<"uBE44", "uBE4E">>,
                    <<"uBE60", "uBE6A">>, <<"uBE7C", "uBE86">>, <<"uBE98", "uBEA2">>, <<"uBEB4", "uBEBE">>,
                    <<"uBED0", "uBEDA">>, <<"uBEEC", "uBEF6">>, <<"uBF08", "uBF12">>, <<"uBF24", "uBF2E">>,
                    <<"uBF40", "uBF4A">>, <<"uBF5C", "uBF66">>, <<"uBF78", "uBF82">>, <<"uBF94", "uBF9E">>,
                    <<"uBFB0", "uBFBA">>, <<"uBFCC", "uBFD6">>, <<"uBFE8", "uBFF2">>, <<"uC004", "uC00E">>,
                    <<"uC020", "uC02A">>, <<"uC03C", "uC046">>, <<"uC058", "uC062">>, <<"uC074", "uC07E">>,
                    <<"uC090", "uC09A">>, <<"uC0AC", "uC0B6">>, <<"uC0C8", "uC0D2">>, <<"uC0E4", "uC0EE">>,
                    <<"uC100", "uC10A">>, <<"uC11C", "uC126">>, <<"uC138", "uC142">>, <<"uC154", "uC15E">>,
                    <<"uC170", "uC17A">>, <<"uC18C", "uC196">>, <<"uC1A8", "uC1B2">>, <<"uC1C4", "uC1CE">>,
                    <<"uC1E0", "uC1EA">>, <<"uC1FC", "uC206">>, <<"uC218", "uC222">>, <<"uC234", "uC23E">>,
                    <<"uC250", "uC25A">>, <<"uC26C", "uC276">>, <<"uC288", "uC292">>, <<"uC2A4", "uC2AE">>,
                    <<"uC2C0", "uC2CA">>, <<"uC2DC", "uC2E6">>, <<"uC2F8", "uC302">>, <<"uC314", "uC31E">>,
                    <<"uC330", "uC33A">>, <<"uC34C", "uC356">>, <<"uC368", "uC372">>, <<"uC384", "uC38E">>,
                    <<"uC3A0", "uC3AA">>, <<"uC3BC", "uC3C6">>, <<"uC3D8", "uC3E2">>, <<"uC3F4", "uC3FE">>,
                    <<"uC410", "uC41A">>, <<"uC42C", "uC436">>, <<"uC448", "uC452">>, <<"uC464", "uC46E">>,
                    <<"uC480", "uC48A">>, <<"uC49C", "uC4A6">>, <<"uC4B8", "uC4C2">>, <<"uC4D4", "uC4DE">>,
                    <<"uC4F0", "uC4FA">>, <<"uC50C", "uC516">>, <<"uC528", "uC532">>, <<"uC544", "uC54E">>,
                    <<"uC560", "uC56A">>, <<"uC57C", "uC586">>, <<"uC598", "uC5A2">>, <<"uC5B4", "uC5BE">>,
                    <<"uC5D0", "uC5DA">>, <<"uC5EC", "uC5F6">>, <<"uC608", "uC612">>, <<"uC624", "uC62E">>,
                    <<"uC640", "uC64A">>, <<"uC65C", "uC666">>, <<"uC678", "uC682">>, <<"uC694", "uC69E">>,
                    <<"uC6B0", "uC6BA">>, <<"uC6CC", "uC6D6">>, <<"uC6E8", "uC6F2">>, <<"uC704", "uC70E">>,
                    <<"uC720", "uC72A">>, <<"uC73C", "uC746">>, <<"uC758", "uC762">>, <<"uC774", "uC77E">>,
                    <<"uC790", "uC79A">>, <<"uC7AC", "uC7B6">>, <<"uC7C8", "uC7D2">>, <<"uC7E4", "uC7EE">>,
                    <<"uC800", "uC80A">>, <<"uC81C", "uC826">>, <<"uC838", "uC842">>, <<"uC854", "uC85E">>,
                    <<"uC870", "uC87A">>, <<"uC88C", "uC896">>, <<"uC8A8", "uC8B2">>, <<"uC8C4", "uC8CE">>,
                    <<"uC8E0", "uC8EA">>, <<"uC8FC", "uC906">>, <<"uC918", "uC922">>, <<"uC934", "uC93E">>,
                    <<"uC950", "uC95A">>, <<"uC96C", "uC976">>, <<"uC988", "uC992">>, <<"uC9A4", "uC9AE">>,
                    <<"uC9C0", "uC9CA">>, <<"uC9DC", "uC9E6">>, <<"uC9F8", "uCA02">>, <<"uCA14", "uCA1E">>,
                    <<"uCA30", "uCA3A">>, <<"uCA4C", "uCA56">>, <<"uCA68", "uCA72">>, <<"uCA84", "uCA8E">>,
                    <<"uCAA0", "uCAAA">>, <<"uCABC", "uCAC6">>, <<"uCAD8", "uCAE2">>, <<"uCAF4", "uCAFE">>,
                    <<"uCB10", "uCB1A">>, <<"uCB2C", "uCB36">>, <<"uCB48", "uCB52">>, <<"uCB64", "uCB6E">>,
                    <<"uCB80", "uCB8A">>, <<"uCB9C", "uCBA6">>, <<"uCBB8", "uCBC2">>, <<"uCBD4", "uCBDE">>,
                    <<"uCBF0", "uCBFA">>, <<"uCC0C", "uCC16">>, <<"uCC28", "uCC32">>, <<"uCC44", "uCC4E">>,
                    <<"uCC60", "uCC6A">>, <<"uCC7C", "uCC86">>, <<"uCC98", "uCCA2">>, <<"uCCB4", "uCCBE">>,
                    <<"uCCD0", "uCCDA">>, <<"uCCEC", "uCCF6">>, <<"uCD08", "uCD12">>, <<"uCD24", "uCD2E">>,
                    <<"uCD40", "uCD4A">>, <<"uCD5C", "uCD66">>, <<"uCD78", "uCD82">>, <<"uCD94", "uCD9E">>,
                    <<"uCDB0", "uCDBA">>, <<"uCDCC", "uCDD6">>, <<"uCDE8", "uCDF2">>, <<"uCE04", "uCE0E">>,
                    <<"uCE20", "uCE2A">>, <<"uCE3C", "uCE46">>, <<"uCE58", "uCE62">>, <<"uCE74", "uCE7E">>,
                    <<"uCE90", "uCE9A">>, <<"uCEAC", "uCEB6">>, <<"uCEC8", "uCED2">>, <<"uCEE4", "uCEEE">>,
                    <<"uCF00", "uCF0A">>, <<"uCF1C", "uCF26">>, <<"uCF38", "uCF42">>, <<"uCF54", "uCF5E">>,
                    <<"uCF70", "uCF7A">>, <<"uCF8C", "uCF96">>, <<"uCFA8", "uCFB2">>, <<"uCFC4", "uCFCE">>,
                    <<"uCFE0", "uCFEA">>, <<"uCFFC", "uD006">>, <<"uD018", "uD022">>, <<"uD034", "uD03E">>,
                    <<"uD050", "uD05A">>, <<"uD06C", "uD076">>, <<"uD088", "uD092">>, <<"uD0A4", "uD0AE">>,
                    <<"uD0C0", "uD0CA">>, <<"uD0DC", "uD0E6">>, <<"uD0F8", "uD102">>, <<"uD114", "uD11E">>,
                    <<"uD130", "uD13A">>, <<"uD14C", "uD156">>, <<"uD168", "uD172">>, <<"uD184", "uD18E">>,
                    <<"uD1A0", "uD1AA">>, <<"uD1BC", "uD1C6">>, <<"uD1D8", "uD1E2">>, <<"uD1F4", "uD1FE">>,
                    <<"uD210", "uD21A">>, <<"uD22C", "uD236">>, <<"uD248", "uD252">>, <<"uD264", "uD26E">>,
                    <<"uD280", "uD28A">>, <<"uD29C", "uD2A6">>, <<"uD2B8", "uD2C2">>, <<"uD2D4", "uD2DE">>,
                    <<"uD2F0", "uD2FA">>, <<"uD30C", "uD316">>, <<"uD328", "uD332">>, <<"uD344", "uD34E">>,
                    <<"uD360", "uD36A">>, <<"uD37C", "uD386">>, <<"uD398", "uD3A2">>, <<"uD3B4", "uD3BE">>,
                    <<"uD3D0", "uD3DA">>, <<"uD3EC", "uD3F6">>, <<"uD408", "uD412">>, <<"uD424", "uD42E">>,
                    <<"uD440", "uD44A">>, <<"uD45C", "uD466">>, <<"uD478", "uD482">>, <<"uD494", "uD49E">>,
                    <<"uD4B0", "uD4BA">>, <<"uD4CC", "uD4D6">>, <<"uD4E8", "uD4F2">>, <<"uD504", "uD50E">>,
                    <<"uD520", "uD52A">>, <<"uD53C", "uD546">>, <<"uD558", "uD562">>, <<"uD574", "uD57E">>,
                    <<"uD590", "uD59A">>, <<"uD5AC", "uD5B6">>, <<"uD5C8", "uD5D2">>, <<"uD5E4", "uD5EE">>,
                    <<"uD600", "uD60A">>, <<"uD61C", "uD626">>, <<"uD638", "uD642">>, <<"uD654", "uD65E">>,
                    <<"uD670", "uD67A">>, <<"uD68C", "uD696">>, <<"uD6A8", "uD6B2">>, <<"uD6C4", "uD6CE">>,
                    <<"uD6E0", "uD6EA">>, <<"uD6FC", "uD706">>, <<"uD718", "uD722">>, <<"uD734", "uD73E">>,
                    <<"uD750", "uD75A">>, <<"uD76C", "uD776">>, <<"uD788", "uD792">>},
         u11B2 |-> {<<"uAC00", "uAC0B">>, <<"uAC1C", "uAC27">>, <<"uAC38", "uAC43">>, <<"uAC54", "uAC5F">>,
                    <<"uAC70", "uAC7B">>, <<"uAC8C", "uAC97">>, <<"uACA8", "uACB3">>, <<"uACC4", "uACCF">>,
                    <<"uACE0", "uACEB">>, <<"uACFC", "uAD07">>, <<"uAD18", "uAD23">>, <<"uAD34", "uAD3F">>,
                    <<"uAD50", "uAD5B">>, <<"uAD6C", "uAD77">>, <<"uAD88", "uAD93">>, <<"uADA4", "uADAF">>,
                    <<"uADC0", "uADCB">>, <<"uADDC", "uADE7">>, <<"uADF8", "uAE03">>, <<"uAE14", "uAE1F">>,
                    <<"uAE30", "uAE3B">>, <<"uAE4C", "uAE57">>, <<"uAE68", "uAE73">>, <<"uAE84", "uAE8F">>,
                    <<"uAEA0", "uAEAB">>, <<"uAEBC", "uAEC7">>, <<"uAED8", "uAEE3">>, <<"uAEF4", "uAEFF">>,
                    <<"uAF10", "uAF1B">>, <<"uAF2C", "uAF37">>, <<"uAF48", "uAF53">>, <<"uAF64", "uAF6F">>,
                    <<"uAF80", "uAF8B">>, <<"uAF9C", "uAFA7">>, <<"uAFB8", "uAFC3">>, <<"uAFD4", "uAFDF">>,
                    <<"uAFF0", "uAFFB">>, <<"uB00C", "uB017">>, <<"uB028", "uB033">>, <<"uB044", "uB04F">>,
                    <<"uB060", "uB06B">>, <<"uB07C", "uB087">>, <<"uB098", "uB0A3">>, <<"uB0B4", "uB0BF">>,
                    <<"uB0D0", "uB0DB">>, <<"uB0EC", "uB0F7">>, <<"uB108", "uB113">>, <<"uB124", "uB12F">>,
                    <<"uB140", "uB14B">>, <<"uB15C", "uB167">>, <<"uB178", "uB183">>, <<"uB194", "uB19F">>,
                    <<"uB1B0", "uB1BB">>, <<"uB1CC", "uB1D7">>, <<"uB1E8", "uB1F3">>, <<"uB204", "uB20F">>,
                    <<"uB220", "uB22B">>, <<"uB23C", "uB247">>, <<"uB258", "uB263">>, <<"uB274", "uB27F">>,
                    <<"uB290", "uB29B">>, <<"uB2AC", "uB2B7">>, <<"uB2C8", "uB2D3">>, <<"uB2E4", "uB2EF">>,
                    <<"uB300", "uB30B">>, <<"uB31C", "uB327">>, <<"uB338", "uB343">>, <<"uB354", "uB35F">>,
                    <<"uB370", "uB37B">>, <<"uB38C", "uB397">>, <<"uB3A8", "uB3B3">>, <<"uB3C4", "uB3CF">>,
                    <<"uB3E0", "uB3EB">>, <<"uB3FC", "uB407">>, <<"uB418", "uB423">>, <<"uB434", "uB43F">>,
                    <<"uB450", "uB45B">>, <<"uB46C", "uB477">>, <<"uB488", "uB493">>, <<"uB4A4", "uB4AF">>,
                    <<"uB4C0", "uB4CB">>, <<"uB4DC", "uB4E7">>, <<"uB4F8", "uB503">>, <<"uB514", "uB51F">>,
                    <<"uB530", "uB53B">>, <<"uB54C", "uB557">>, <<"uB568", "uB573">>, <<"uB584", "uB58F">>,
                    <<"uB5A0", "uB5AB">>, <<"uB5BC", "uB5C7">>, <<"uB5D8", "uB5E3">>, <<"uB5F4", "uB5FF">>,
                    <<"uB610", "uB61B">>, <<"uB62C", "uB637">>, <<"uB648", "uB653">>, <<"uB664", "uB66F">>,
                    <<"uB680", "uB68B">>, <<"uB69C", "uB6A7">>, <<"uB6B8", "uB6C3">>, <<"uB6D4", "uB6DF">>,
                    <<"uB6F0", "uB6FB">>, <<"uB70C", "uB717">>, <<"uB728", "uB733">>, <<"uB744", "uB74F">>,
                    <<"uB760", "uB76B">>, <<"uB77C", "uB787">>, <<"uB798", "uB7A3">>, <<"uB7B4", "uB7BF">>,
                    <<"uB7D0", "uB7DB">>, <<"uB7EC", "uB7F7">>, <<"uB808", "uB813">>, <<"uB824", "uB82F">>,
                    <<"uB840", "uB84B">>, <<"uB85C", "uB867">>, <<"uB878", "uB883">>, <<"uB894", "uB89F">>,
                    <<"uB8B0", "uB8BB">>, <<"uB8CC", "uB8D7">>, <<"uB8E8", "uB8F3">>, <<"uB904", "uB90F">>,
                    <<"uB920", "uB92B">>, <<"uB93C", "uB947">>, <<"uB958", "uB963">>, <<"uB974", "uB97F">>,
                    <<"uB990", "uB99B">>, <<"uB9AC", "uB9B7">>, <<"uB9C8", "uB9D3">>, <<"uB9E4", "uB9EF">>,
                    <<"uBA00", "uBA0B">>, <<"uBA1C", "uBA27">>, <<"uBA38", "uBA43">>, <<"uBA54", "uBA5F">>,
                    <<"uBA70", "uBA7B">>, <<"uBA8C", "uBA97">>, <<"uBAA8", "uBAB3">>, <<"uBAC4", "uBACF">>,
                    <<"uBAE0", "uBAEB">>, <<"uBAFC", "uBB07">>, <<"uBB18", "uBB23">>, <<"uBB34", "uBB3F">>,
                    <<"uBB50", "uBB5B">>, <<"uBB6C", "uBB77">>, <<"uBB88", "uBB93">>, <<"uBBA4", "uBBAF">>,
                    <<"uBBC0", "uBBCB">>, <<"uBBDC", "uBBE7">>, <<"uBBF8", "uBC03">>, <<"uBC14", "uBC1F">>,
                    <<"uBC30", "uBC3B">>, <<"uBC4C", "uBC57">>, <<"uBC68", "uBC73">>, <<"uBC84", "uBC8F">>,
                    <<"uBCA0", "uBCAB">>, <<"uBCBC", "uBCC7">>, <<"uBCD8", "uBCE3">>, <<"uBCF4", "uBCFF">>,
                    <<"uBD10", "uBD1B">>, <<"uBD2C", "uBD37">>, <<"uBD48", "uBD53">>, <<"uBD64", "uBD6F">>,
                    <<"uBD80", "uBD8B">>, <<"uBD9C", "uBDA7">>, <<"uBDB8", "uBDC3">>, <<"uBDD4", "uBDDF">>,
                    <<"uBDF0", "uBDFB">>, <<"uBE0C", "uBE17">>, <<"uBE28", "uBE33">>, <<"uBE44", "uBE4F">>,
                    <<"uBE60", "uBE6B">>, <<"uBE7C", "uBE87">>, <<"uBE98", "uBEA3">>, <<"uBEB4", "uBEBF">>,
                    <<"uBED0", "uBEDB">>, <<"uBEEC", "uBEF7">>, <<"uBF08", "uBF13">>, <<"uBF24", "uBF2F">>,
                    <<"uBF40", "uBF4B">>, <<"uBF5C", "uBF67">>, <<"uBF78", "uBF83">>, <<"uBF94", "uBF9F">>,
                    <<"uBFB0", "uBFBB">>, <<"uBFCC", "uBFD7">>, <<"uBFE8", "uBFF3">>, <<"uC004", "uC00F">>,
                    <<"uC020", "uC02B">>, <<"uC03C", "uC047">>, <<"uC058", "uC063">>, <<"uC074", "uC07F">>,
                    <<"uC090", "uC09B">>, <<"uC0AC", "uC0B7">>, <<"uC0C8", "uC0D3">>, <<"uC0E4", "uC0EF">>,
                    <<"uC100", "uC10B">>, <<"uC11C", "uC127">>, <<"uC138", "uC143">>, <<"uC154", "uC15F">>,
                    <<"uC170", "uC17B">>, <<"uC18C", "uC197">>, <<"uC1A8", "uC1B3">>, <<"uC1C4", "uC1CF">>,
                    <<"uC1E0", "uC1EB">>, <<"uC1FC", "uC207">>, <<"uC218", "uC223">>, <<"uC234", "uC23F">>,
                    <<"uC250", "uC25B">>, <<"uC26C", "uC277">>, <<"uC288", "uC293">>, <<"uC2A4", "uC2AF">>,
                    <<"uC2C0", "uC2CB">>, <<"uC2DC", "uC2E7">>, <<"uC2F8", "uC303">>, <<"uC314", "uC31F">>,
                    <<"uC330", "uC33B">>, <<"uC34C", "uC357">>, <<"uC368", "uC373">>, <<"uC384", "uC38F">>,
                    <<"uC3A0", "uC3AB">>, <<"uC3BC", "uC3C7">>, <<"uC3D8", "uC3E3">>, <<"uC3F4", "uC3FF">>,
                    <<"uC410", "uC41B">>, <<"uC42C", "uC437">>, <<"uC448", "uC453">>, <<"uC464", "uC46F">>,
                    <<"uC480", "uC48B">>, <<"uC49C", "uC4A7">>, <<"uC4B8", "uC4C3">>, <<"uC4D4", "uC4DF">>,
                    <<"uC4F0", "uC4FB">>, <<"uC50C", "uC517">>, <<"uC528", "uC533">>, <<"uC544", "uC54F">>,
                    <<"uC560", "uC56B">>, <<"uC57C", "uC587">>, <<"uC598", "uC5A3">>, <<"uC5B4", "uC5BF">>,
                    <<"uC5D0", "uC5DB">>, <<"uC5EC", "uC5F7">>, <<"uC608", "uC613">>, <<"uC624", "uC62F">>,
                    <<"uC640", "uC64B">>, <<"uC65C", "uC667">>, <<"uC678", "uC683">>, <<"uC694", "uC69F">>,
                    <<"uC6B0", "uC6BB">>, <<"uC6CC", "uC6D7">>, <<"uC6E8", "uC6F3">>, <<"uC704", "uC70F">>,
                    <<"uC720", "uC72B">>, <<"uC73C", "uC747">>, <<"uC758", "uC763">>, <<"uC774", "uC77F">>,
                    <<"uC790", "uC79B">>, <<"uC7AC", "uC7B7">>, <<"uC7C8", "uC7D3">>, <<"uC7E4", "uC7EF">>,
                    <<"uC800", "uC80B">>, <<"uC81C", "uC827">>, <<"uC838", "uC843">>, <<"uC854", "uC85F">>,
                    <<"uC870", "uC87B">>, <<"uC88C", "uC897">>, <<"uC8A8", "uC8B3">>, <<"uC8C4", "uC8CF">>,
                    <<"uC8E0", "uC8EB">>, <<"uC8FC", "uC907">>, <<"uC918", "uC923">>, <<"uC934", "uC93F">>,
                    <<"uC950", "uC95B">>, <<"uC96C", "uC977">>, <<"uC988", "uC993">>, <<"uC9A4", "uC9AF">>,
                    <<"uC9C0", "uC9CB">>, <<"uC9DC", "uC9E7">>, <<"uC9F8", "uCA03">>, <<"uCA14", "uCA1F">>,
                    <<"uCA30", "uCA3B">>, <<"uCA4C", "uCA57">>, <<"uCA68", "uCA73">>, <<"uCA84", "uCA8F">>,
                    <<"uCAA0", "uCAAB">>, <<"uCABC", "uCAC7">>, <<"uCAD8", "uCAE3">>, <<"uCAF4", "uCAFF">>,
                    <<"uCB10", "uCB1B">>, <<"uCB2C", "uCB37">>, <<"uCB48", "uCB53">>, <<"uCB64", "uCB6F">>,
                    <<"uCB80", "uCB8B">>, <<"uCB9C", "uCBA7">>, <<"uCBB8", "uCBC3">>, <<"uCBD4", "uCBDF">>,
                    <<"uCBF0", "uCBFB">>, <<"uCC0C", "uCC17">>, <<"uCC28", "uCC33">>, <<"uCC44", "uCC4F">>,
                    <<"uCC60", "uCC6B">>, <<"uCC7C", "uCC87">>, <<"uCC98", "uCCA3">>, <<"uCCB4", "uCCBF">>,
                    <<"uCCD0", "uCCDB">>, <<"uCCEC", "uCCF7">>, <<"uCD08", "uCD13">>, <<"uCD24", "uCD2F">>,
                    <<"uCD40", "uCD4B">>, <<"uCD5C", "uCD67">>, <<"uCD78", "uCD83">>, <<"uCD94", "uCD9F">>,
                    <<"uCDB0", "uCDBB">>, <<"uCDCC", "uCDD7">>, <<"uCDE8", "uCDF3">>, <<"uCE04", "uCE0F">>,
                    <<"uCE20", "uCE2B">>, <<"uCE3C", "uCE47">>, <<"uCE58", "uCE63">>, <<"uCE74", "uCE7F">>,
                    <<"uCE90", "uCE9B">>, <<"uCEAC", "uCEB7">>, <<"uCEC8", "uCED3">>, <<"uCEE4", "uCEEF">>,
                    <<"uCF00", "uCF0B">>, <<"uCF1C", "uCF27">>, <<"uCF38", "uCF43">>, <<"uCF54", "uCF5F">>,
                    <<"uCF70", "uCF7B">>, <<"uCF8C", "uCF97">>, <<"uCFA8", "uCFB3">>, <<"uCFC4", "uCFCF">>,
                    <<"uCFE0", "uCFEB">>, <<"uCFFC", "uD007">>, <<"uD018", "uD023">>, <<"uD034", "uD03F">>,
                    <<"uD050", "uD05B">>, <<"uD06C", "uD077">>, <<"uD088", "uD093">>, <<"uD0A4", "uD0AF">>,
                    <<"uD0C0", "uD0CB">>, <<"uD0DC", "uD0E7">>, <<"uD0F8", "uD103">>, <<"uD114", "uD11F">>,
                    <<"uD130", "uD13B">>, <<"uD14C", "uD157">>, <<"uD168", "uD173">>, <<"uD184", "uD18F">>,
                    <<"uD1A0", "uD1AB">>, <<"uD1BC", "uD1C7">>, <<"uD1D8", "uD1E3">>, <<"uD1F4", "uD1FF">>,
                    <<"uD210", "uD21B">>, <<"uD22C", "uD237">>, <<"uD248", "uD253">>, <<"uD264", "uD26F">>,
                    <<"uD280", "uD28B">>, <<"uD29C", "uD2A7">>, <<"uD2B8", "uD2C3">>, <<"uD2D4", "uD2DF">>,
                    <<"uD2F0", "uD2FB">>, <<"uD30C", "uD317">>, <<"uD328", "uD333">>, <<"uD344", "uD34F">>,
                    <<"uD360", "uD36B">>, <<"uD37C", "uD387">>, <<"uD398", "uD3A3">>, <<"uD3B4", "uD3BF">>,
                    <<"uD3D0", "uD3DB">>, <<"uD3EC", "uD3F7">>, <<"uD408", "uD413">>, <<"uD424", "uD42F">>,
                    <<"uD440", "uD44B">>, <<"uD45C", "uD467">>, <<"uD478", "uD483">>, <<"uD494", "uD49F">>,
                    <<"uD4B0", "uD4BB">>, <<"uD4CC", "uD4D7">>, <<"uD4E8", "uD4F3">>, <<"uD504", "uD50F">>,
                    <<"uD520", "uD52B">>, <<"uD53C", "uD547">>, <<"uD558", "uD563">>, <<"uD574", "uD57F">>,
                    <<"uD590", "uD59B">>, <<"uD5AC", "uD5B7">>, <<"uD5C8", "uD5D3">>, <<"uD5E4", "uD5EF">>,
                    <<"uD600", "uD60B">>, <<"uD61C", "uD627">>, <<"uD638", "uD643">>, <<"uD654", "uD65F">>,
                    <<"uD670", "uD67B">>, <<"uD68C", "uD697">>, <<"uD6A8", "uD6B3">>, <<"uD6C4", "uD6CF">>,
                    <<"uD6E0", "uD6EB">>, <<"uD6FC", "uD707">>, <<"uD718", "uD723">>, <<"uD734", "uD73F">>,
                    <<"uD750", "uD75B">>, <<"uD76C", "uD777">>, <<"uD788", "uD793">>},
         u11B3 |-> {<<"uAC00", "uAC0C">>, <<"uAC1C", "uAC28">>, <<"uAC38", "uAC44">>, <<"uAC54", "uAC60">>,
                    <<"uAC70", "uAC7C">>, <<"uAC8C", "uAC98">>, <<"uACA8", "uACB4">>, <<"uACC4", "uACD0">>,
                    <<"uACE0", "uACEC">>, <<"uACFC", "uAD08">>, <<"uAD18", "uAD24">>, <<"uAD34", "uAD40">>,
                    <<"uAD50", "uAD5C">>, <<"uAD6C", "uAD78">>, <<"uAD88", "uAD94">>, <<"uADA4", "uADB0">>,
                    <<"uADC0", "uADCC">>, <<"uADDC", "uADE8">>, <<"uADF8", "uAE04">>, <<"uAE14", "uAE20">>,
                    <<"uAE30", "uAE3C">>, <<"uAE4C", "uAE58">>, <<"uAE68", "uAE74">>, <<"uAE84", "uAE90">>,
                    <<"uAEA0", "uAEAC">>, <<"uAEBC", "uAEC8">>, <<"uAED8", "uAEE4">>, <<"uAEF4", "uAF00">>,
                    <<"uAF10", "uAF1C">>, <<"uAF2C", "uAF38">>, <<"uAF48", "uAF54">>, <<"uAF64", "uAF70">>,
                    <<"uAF80", "uAF8C">>, <<"uAF9C", "uAFA8">>, <<"uAFB8", "uAFC4">>, <<"uAFD4", "uAFE0">>,
                    <<"uAFF0", "uAFFC">>, <<"uB00C", "uB018">>, <<"uB028", "uB034">>, <<"uB044", "uB050">>,
                    <<"uB060", "uB06C">>, <<"uB07C", "uB088">>, <<"uB098", "uB0A4">>, <<"uB0B4", "uB0C0">>,
                    <<"uB0D0", "uB0DC">>, <<"uB0EC", "uB0F8">>, <<"uB108", "uB114">>, <<"uB124", "uB130">>,
                    <<"uB140", "uB14C">>, <<"uB15C", "uB168">>, <<"uB178", "uB184">>, <<"uB194", "uB1A0">>,
                    <<"uB1B0", "uB1BC">>, <<"uB1CC", "uB1D8">>, <<"uB1E8", "uB1F4">>, <<"uB204", "uB210">>,
                    <<"uB220", "uB22C">>, <<"uB23C", "uB248">>, <<"uB258", "uB264">>, <<"uB274", "uB280">>,
                    <<"uB290", "uB29C">>, <<"uB2AC", "uB2B8">>, <<"uB2C8", "uB2D4">>, <<"uB2E4", "uB2F0">>,
                    <<"uB300", "uB30C">>, <<"uB31C", "uB328">>, <<"uB338", "uB344">>, <<"uB354", "uB360">>,
                    <<"uB370", "uB37C">>, <<"uB38C", "uB398">>, <<"uB3A8", "uB3B4">>, <<"uB3C4", "uB3D0">>,
                    <<"uB3E0", "uB3EC">>, <<"uB3FC", "uB408">>, <<"uB418", "uB424">>, <<"uB434", "uB440">>,
                    <<"uB450", "uB45C">>, <<"uB46C", "uB478">>, <<"uB488", "uB494">>, <<"uB4A4", "uB4B0">>,
                    <<"uB4C0", "uB4CC">>, <<"uB4DC", "uB4E8">>, <<"uB4F8", "uB504">>, <<"uB514", "uB520">>,
                    <<"uB530", "uB53C">>, <<"uB54C", "uB558">>, <<"uB568", "uB574">>, <<"uB584", "uB590">>,
                    <<"uB5A0", "uB5AC">>, <<"uB5BC", "uB5C8">>, <<"uB5D8", "uB5E4">>, <<"uB5F4", "uB600">>,
                    <<"uB610", "uB61C">>, <<"uB62C", "uB638">>, <<"uB648", "uB654">>, <<"uB664", "uB670">>,
                    <<"uB680", "uB68C">>, <<"uB69C", "uB6A8">>, <<"uB6B8", "uB6C4">>, <<"uB6D4", "uB6E0">>,
                    <<"uB6F0", "uB6FC">>, <<"uB70C", "uB718">>, <<"uB728", "uB734">>, <<"uB744", "uB750">>,
                    <<"uB760", "uB76C">>, <<"uB77C", "uB788">>, <<"uB798", "uB7A4">>, <<"uB7B4", "uB7C0">>,
                    <<"uB7D0", "uB7DC">>, <<"uB7EC", "uB7F8">>, <<"uB808", "uB814">>, <<"uB824", "uB830">>,
                    <<"uB840", "uB84C">>, <<"uB85C", "uB868">>, <<"uB878", "uB884">>, <<"uB894", "uB8A0">>,
                    <<"uB8B0", "uB8BC">>, <<"uB8CC", "uB8D8">>, <<"uB8E8", "uB8F4">>, <<"uB904", "uB910">>,
                    <<"uB920", "uB92C">>, <<"uB93C", "uB948">>, <<"uB958", "uB964">>, <<"uB974", "uB980">>,
                    <<"uB990", "uB99C">>, <<"uB9AC", "uB9B8">>, <<"uB9C8", "uB9D4">>, <<"uB9E4", "uB9F0">>,
                    <<"uBA00", "uBA0C">>, <<"uBA1C", "uBA28">>, <<"uBA38", "uBA44">>, <<"uBA54", "uBA60">>,
                    <<"uBA70", "uBA7C">>, <<"uBA8C", "uBA98">>, <<"uBAA8", "uBAB4">>, <<"uBAC4", "uBAD0">>,
                    <<"uBAE0", "uBAEC">>, <<"uBAFC", "uBB08">>, <<"uBB18", "uBB24">>, <<"uBB34", "uBB40">>,
                    <<"uBB50", "uBB5C">>, <<"uBB6C", "uBB78">>, <<"uBB88", "uBB94">>, <<"uBBA4", "uBBB0">>,
                    <<"uBBC0", "uBBCC">>, <<"uBBDC", "uBBE8">>, <<"uBBF8", "uBC04">>, <<"uBC14", "uBC20">>,
                    <<"uBC30", "uBC3C">>, <<"uBC4C", "uBC58">>, <<"uBC68", "uBC74">>, <<"uBC84", "uBC90">>,
                    <<"uBCA0", "uBCAC">>, <<"uBCBC", "uBCC8">>, <<"uBCD8", "uBCE4">>, <<"uBCF4", "uBD00">>,
                    <<"uBD10", "uBD1C">>, <<"uBD2C", "uBD38">>, <<"uBD48", "uBD54">>, <<"uBD64", "uBD70">>,
                    <<"uBD80", "uBD8C">>, <<"uBD9C", "uBDA8">>, <<"uBDB8", "uBDC4">>, <<"uBDD4", "uBDE0">>,
                    <<"uBDF0", "uBDFC">>, <<"uBE0C", "uBE18">>, <<"uBE28", "uBE34">>, <<"uBE44", "uBE50">>,
                    <<"uBE60", "uBE6C">>, <<"uBE7C", "uBE88">>, <<"uBE98", "uBEA4">>, <<"uBEB4", "uBEC0">>,
                    <<"uBED0", "uBEDC">>, <<"uBEEC", "uBEF8">>, <<"uBF08", "uBF14">>, <<"uBF24", "uBF30">>,
                    <<"uBF40", "uBF4C">>, <<"uBF5C", "uBF68">>, <<"uBF78", "uBF84">>, <<"uBF94", "uBFA0">>,
                    <<"uBFB0", "uBFBC">>, <<"uBFCC", "uBFD8">>, <<"uBFE8", "uBFF4">>, <<"uC004", "uC010">>,
                    <<"uC020", "uC02C">>, <<"uC03C", "uC048">>, <<"uC058", "uC064">>, <<"uC074", "uC080">>,
                    <<"uC090", "uC09C">>, <<"uC0AC", "uC0B8">>, <<"uC0C8", "uC0D4">>, <<"uC0E4", "uC0F0">>,
                    <<"uC100", "uC10C">>, <<"uC11C", "uC128">>, <<"uC138", "uC144">>, <<"uC154", "uC160">>,
                    <<"uC170", "uC17C">>, <<"uC18C", "uC198">>, <<"uC1A8", "uC1B4">>, <<"uC1C4", "uC1D0">>,
                    <<"uC1E0", "uC1EC">>, <<"uC1FC", "uC208">>, <<"uC218", "uC224">>, <<"uC234", "uC240">>,
                    <<"uC250", "uC25C">>, <<"uC26C", "uC278">>, <<"uC288", "uC294">>, <<"uC2A4", "uC2B0">>,
                    <<"uC2C0", "uC2CC">>, <<"uC2DC", "uC2E8">>, <<"uC2F8", "uC304">>, <<"uC314", "uC320">>,
                    <<"uC330", "uC33C">>, <<"uC34C", "uC358">>, <<"uC368", "uC374">>, <<"uC384", "uC390">>,
                    <<"uC3A0", "uC3AC">>, <<"uC3BC", "uC3C8">>, <<"uC3D8", "uC3E4">>, <<"uC3F4", "uC400">>,
                    <<"uC410", "uC41C">>, <<"uC42C", "uC438">>, <<"uC448", "uC454">>, <<"uC464", "uC470">>,
                    <<"uC480", "uC48C">>, <<"uC49C", "uC4A8">>, <<"uC4B8", "uC4C4">>, <<"uC4D4", "uC4E0">>,
                    <<"uC4F0", "uC4FC">>, <<"uC50C", "uC518">>, <<"uC528", "uC534">>, <<"uC544", "uC550">>,
                    <<"uC560", "uC56C">>, <<"uC57C", "uC588">>, <<"uC598", "uC5A4">>, <<"uC5B4", "uC5C0">>,
                    <<"uC5D0", "uC5DC">>, <<"uC5EC", "uC5F8">>, <<"uC608", "uC614">>, <<"uC624", "uC630">>,
                    <<"uC640", "uC64C">>, <<"uC65C", "uC668">>, <<"uC678", "uC684">>, <<"uC694", "uC6A0">>,
                    <<"uC6B0", "uC6BC">>, <<"uC6CC", "uC6D8">>, <<"uC6E8", "uC6F4">>, <<"uC704", "uC710">>,
                    <<"uC720", "uC72C">>, <<"uC73C", "uC748">>, <<"uC758", "uC764">>, <<"uC774", "uC780">>,
                    <<"uC790", "uC79C">>, <<"uC7AC", "uC7B8">>, <<"uC7C8", "uC7D4">>, <<"uC7E4", "uC7F0">>,
                    <<"uC800", "uC80C">>, <<"uC81C", "uC828">>, <<"uC838", "uC844">>, <<"uC854", "uC860">>,
                    <<"uC870", "uC87C">>, <<"uC88C", "uC898">>, <<"uC8A8", "uC8B4">>, <<"uC8C4", "uC8D0">>,
                    <<"uC8E0", "uC8EC">>, <<"uC8FC", "uC908">>, <<"uC918", "uC924">>, <<"uC934", "uC940">>,
                    <<"uC950", "uC95C">>, <<"uC96C", "uC978">>, <<"uC988", "uC994">>, <<"uC9A4", "uC9B0">>,
                    <<"uC9C0", "uC9CC">>, <<"uC9DC", "uC9E8">>, <<"uC9F8", "uCA04">>, <<"uCA14", "uCA20">>,
                    <<"uCA30", "uCA3C">>, <<"uCA4C", "uCA58">>, <<"uCA68", "uCA74">>, <<"uCA84", "uCA90">>,
                    <<"uCAA0", "uCAAC">>, <<"uCABC", "uCAC8">>, <<"uCAD8", "uCAE4">>, <<"uCAF4", "uCB00">>,
                    <<"uCB10", "uCB1C">>, <<"uCB2C", "uCB38">>, <<"uCB48", "uCB54">>, <<"uCB64", "uCB70">>,
                    <<"uCB80", "uCB8C">>, <<"uCB9C", "uCBA8">>, <<"uCBB8", "uCBC4">>, <<"uCBD4", "uCBE0">>,
                    <<"uCBF0", "uCBFC">>, <<"uCC0C", "uCC18">>, <<"uCC28", "uCC34">>, <<"uCC44", "uCC50">>,
                    <<"uCC60", "uCC6C">>, <<"uCC7C", "uCC88">>, <<"uCC98", "uCCA4">>, <<"uCCB4", "uCCC0">>,
                    <<"uCCD0", "uCCDC">>, <<"uCCEC", "uCCF8">>, <<"uCD08", "uCD14">>, <<"uCD24", "uCD30">>,
                    <<"uCD40", "uCD4C">>, <<"uCD5C", "uCD68">>, <<"uCD78", "uCD84">>, <<"uCD94", "uCDA0">>,
                    <<"uCDB0", "uCDBC">>, <<"uCDCC", "uCDD8">>, <<"uCDE8", "uCDF4">>, <<"uCE04", "uCE10">>,
                    <<"uCE20", "uCE2C">>, <<"uCE3C", "uCE48">>, <<"uCE58", "uCE64">>, <<"uCE74", "uCE80">>,
                    <<"uCE90", "uCE9C">>, <<"uCEAC", "uCEB8">>, <<"uCEC8", "uCED4">>, <<"uCEE4", "uCEF0">>,
                    <<"uCF00", "uCF0C">>, <<"uCF1C", "uCF28">>, <<"uCF38", "uCF44">>, <<"uCF54", "uCF60">>,
                    <<"uCF70", "uCF7C">>, <<"uCF8C", "uCF98">>, <<"uCFA8", "uCFB4">>, <<"uCFC4", "uCFD0">>,
                    <<"uCFE0", "uCFEC">>, <<"uCFFC", "uD008">>, <<"uD018", "uD024">>, <<"uD034", "uD040">>,
                    <<"uD050", "uD05C">>, <<"uD06C", "uD078">>, <<"uD088", "uD094">>, <<"uD0A4", "uD0B0">>,
                    <<"uD0C0", "uD0CC">>, <<"uD0DC", "uD0E8">>, <<"uD0F8", "uD104">>, <<"uD114", "uD120">>,
                    <<"uD130", "uD13C">>, <<"uD14C", "uD158">>, <<"uD168", "uD174">>, <<"uD184", "uD190">>,
                    <<"uD1A0", "uD1AC">>, <<"uD1BC", "uD1C8">>, <<"uD1D8", "uD1E4">>, <<"uD1F4", "uD200">>,
                    <<"uD210", "uD21C">>, <<"uD22C", "uD238">>, <<"uD248", "uD254">>, <<"uD264", "uD270">>,
                    <<"uD280", "uD28C">>, <<"uD29C", "uD2A8">>, <<"uD2B8", "uD2C4">>, <<"uD2D4", "uD2E0">>,
                    <<"uD2F0", "uD2FC">>, <<"uD30C", "uD318">>, <<"uD328", "uD334">>, <<"uD344", "uD350">>,
                    <<"uD360", "uD36C">>, <<"uD37C", "uD388">>, <<"uD398", "uD3A4">>, <<"uD3B4", "uD3C0">>,
                    <<"uD3D0", "uD3DC">>, <<"uD3EC", "uD3F8">>, <<"uD408", "uD414">>, <<"uD424", "uD430">>,
                    <<"uD440", "uD44C">>, <<"uD45C", "uD468">>, <<"uD478", "uD484">>, <<"uD494", "uD4A0">>,
                    <<"uD4B0", "uD4BC">>, <<"uD4CC", "uD4D8">>, <<"uD4E8", "uD4F4">>, <<"uD504", "uD510">>,
                    <<"uD520", "uD52C">>, <<"uD53C", "uD548">>, <<"uD558", "uD564">>, <<"uD574", "uD580">>,
                    <<"uD590", "uD59C">>, <<"uD5AC", "uD5B8">>, <<"uD5C8", "uD5D4">>, <<"uD5E4", "uD5F0">>,
                    <<"uD600", "uD60C">>, <<"uD61C", "uD628">>, <<"uD638", "uD644">>, <<"uD654", "uD660">>,
                    <<"uD670", "uD67C">>, <<"uD68C", "uD698">>, <<"uD6A8", "uD6B4">>, <<"uD6C4", "uD6D0">>,
                    <<"uD6E0", "uD6EC">>, <<"uD6FC", "uD708">>, <<"uD718", "uD724">>, <<"uD734", "uD740">>,
                    <<"uD750", "uD75C">>, <<"uD76C", "uD778">>, <<"uD788", "uD794">>},
         u11B4 |-> {<<"uAC00", "uAC0D">>, <<"uAC1C", "uAC29">>, <<"uAC38", "uAC45">>, <<"uAC54", "uAC61">>,
                    <<"uAC70", "uAC7D">>, <<"uAC8C", "uAC99">>, <<"uACA8", "uACB5">>, <<"uACC4", "uACD1">>,
                    <<"uACE0", "uACED">>, <<"uACFC", "uAD09">>, <<"uAD18", "uAD25">>, <<"uAD34", "uAD41">>,
                    <<"uAD50", "uAD5D">>, <<"uAD6C", "uAD79">>, <<"uAD88", "uAD95">>, <<"uADA4", "uADB1">>,
                    <<"uADC0", "uADCD">>, <<"uADDC", "uADE9">>, <<"uADF8", "uAE05">>, <<"uAE14", "uAE21">>,
                    <<"uAE30", "uAE3D">>, <<"uAE4C", "uAE59">>, <<"uAE68", "uAE75">>, <<"uAE84", "uAE91">>,
                    <<"uAEA0", "uAEAD">>, <<"uAEBC", "uAEC9">>, <<"uAED8", "uAEE5">>, <<"uAEF4", "uAF01">>,
                    <<"uAF10", "uAF1D">>, <<"uAF2C", "uAF39">>, <<"uAF48", "uAF55">>, <<"uAF64", "uAF71">>,
                    <<"uAF80", "uAF8D">>, <<"uAF9C", "uAFA9">>, <<"uAFB8", "uAFC5">>, <<"uAFD4", "uAFE1">>,
                    <<"uAFF0", "uAFFD">>, <<"uB00C", "uB019">>, <<"uB028", "uB035">>, <<"uB044", "uB051">>,
                    <<"uB060", "uB06D">>, <<"uB07C", "uB089">>, <<"uB098", "uB0A5">>, <<"uB0B4", "uB0C1">>,
                    <<"uB0D0", "uB0DD">>, <<"uB0EC", "uB0F9">>, <<"uB108", "uB115">>, <<"uB124", "uB131">>,
                    <<"uB140", "uB14D">>, <<"uB15C", "uB169">>, <<"uB178", "uB185">>, <<"uB194", "uB1A1">>,
                    <<"uB1B0", "uB1BD">>, <<"uB1CC", "uB1D9">>, <<"uB1E8", "uB1F5">>, <<"uB204", "uB211">>,
                    <<"uB220", "uB22D">>, <<"uB23C", "uB249">>, <<"uB258", "uB265">>, <<"uB274", "uB281">>,
                    <<"uB290", "uB29D">>, <<"uB2AC", "uB2B9">>, <<"uB2C8", "uB2D5">>, <<"uB2E4", "uB2F1">>,
                    <<"uB300", "uB30D">>, <<"uB31C", "uB329">>, <<"uB338", "uB345">>, <<"uB354", "uB361">>,
                    <<"uB370", "uB37D">>, <<"uB38C", "uB399">>, <<"uB3A8", "uB3B5">>, <<"uB3C4", "uB3D1">>,
                    <<"uB3E0", "uB3ED">>, <<"uB3FC", "uB409">>, <<"uB418", "uB425">>, <<"uB434", "uB441">>,
                    <<"uB450", "uB45D">>, <<"uB46C", "uB479">>, <<"uB488", "uB495">>, <<"uB4A4", "uB4B1">>,
                    <<"uB4C0", "uB4CD">>, <<"uB4DC", "uB4E9">>, <<"uB4F8", "uB505">>, <<"uB514", "uB521">>,
                    <<"uB530", "uB53D">>, <<"uB54C", "uB559">>, <<"uB568", "uB575">>, <<"uB584", "uB591">>,
                    <<"uB5A0", "uB5AD">>, <<"uB5BC", "uB5C9">>, <<"uB5D8", "uB5E5">>, <<"uB5F4", "uB601">>,
                    <<"uB610", "uB61D">>, <<"uB62C", "uB639">>, <<"uB648", "uB655">>, <<"uB664", "uB671">>,
                    <<"uB680", "uB68D">>, <<"uB69C", "uB6A9">>, <<"uB6B8", "uB6C5">>, <<"uB6D4", "uB6E1">>,
                    <<"uB6F0", "uB6FD">>, <<"uB70C", "uB719">>, <<"uB728", "uB735">>, <<"uB744", "uB751">>,
                    <<"uB760", "uB76D">>, <<"uB77C", "uB789">>, <<"uB798", "uB7A5">>, <<"uB7B4", "uB7C1">>,
                    <<"uB7D0", "uB7DD">>, <<"uB7EC", "uB7F9">>, <<"uB808", "uB815">>, <<"uB824", "uB831">>,
                    <<"uB840", "uB84D">>, <<"uB85C", "uB869">>, <<"uB878", "uB885">>, <<"uB894", "uB8A1">>,
                    <<"uB8B0", "uB8BD">>, <<"uB8CC", "uB8D9">>, <<"uB8E8", "uB8F5">>, <<"uB904", "uB911">>,
                    <<"uB920", "uB92D">>, <<"uB93C", "uB949">>, <<"uB958", "uB965">>, <<"uB974", "uB981">>,
                    <<"uB990", "uB99D">>, <<"uB9AC", "uB9B9">>, <<"uB9C8", "uB9D5">>, <<"uB9E4", "uB9F1">>,
                    <<"uBA00", "uBA0D">>, <<"uBA1C", "uBA29">>, <<"uBA38", "uBA45">>, <<"uBA54", "uBA61">>,
                    <<"uBA70", "uBA7D">>, <<"uBA8C", "uBA99">>, <<"uBAA8", "uBAB5">>, <<"uBAC4", "uBAD1">>,
                    <<"uBAE0", "uBAED">>, <<"uBAFC", "uBB09">>, <<"uBB18", "uBB25">>, <<"uBB34", "uBB41">>,
                    <<"uBB50", "uBB5D">>, <<"uBB6C", "uBB79">>, <<"uBB88", "uBB95">>, <<"uBBA4", "uBBB1">>,
                    <<"uBBC0", "uBBCD">>, <<"uBBDC", "uBBE9">>, <<"uBBF8", "uBC05">>, <<"uBC14", "uBC21">>,
                    <<"uBC30", "uBC3D">>, <<"uBC4C", "uBC59">>, <<"uBC68", "uBC75">>, <<"uBC84", "uBC91">>,
                    <<"uBCA0", "uBCAD">>, <<"uBCBC", "uBCC9">>, <<"uBCD8", "uBCE5">>, <<"uBCF4", "uBD01">>,
                    <<"uBD10", "uBD1D">>, <<"uBD2C", "uBD39">>, <<"uBD48", "uBD55">>, <<"uBD64", "uBD71">>,
                    <<"uBD80", "uBD8D">>, <<"uBD9C", "uBDA9">>, <<"uBDB8", "uBDC5">>, <<"uBDD4", "uBDE1">>,
                    <<"uBDF0", "uBDFD">>, <<"uBE0C", "uBE19">>, <<"uBE28", "uBE35">>, <<"uBE44", "uBE51">>,
                    <<"uBE60", "uBE6D">>, <<"uBE7C", "uBE89">>, <<"uBE98", "uBEA5">>, <<"uBEB4", "uBEC1">>,
                    <<"uBED0", "uBEDD">>, <<"uBEEC", "uBEF9">>, <<"uBF08", "uBF15">>, <<"uBF24", "uBF31">>,
                    <<"uBF40", "uBF4D">>, <<"uBF5C", "uBF69">>, <<"uBF78", "uBF85">>, <<"uBF94", "uBFA1">>,
                    <<"uBFB0", "uBFBD">>, <<"uBFCC", "uBFD9">>, <<"uBFE8", "uBFF5">>, <<"uC004", "uC011">>,
                    <<"uC020", "uC02D">>, <<"uC03C", "uC049">>, <<"uC058", "uC065">>, <<"uC074", "uC081">>,
                    <<"uC090", "uC09D">>, <<"uC0AC", "uC0B9">>, <<"uC0C8", "uC0D5">>, <<"uC0E4", "uC0F1">>,
                    <<"uC100", "uC10D">>, <<"uC11C", "uC129">>, <<"uC138", "uC145">>, <<"uC154", "uC161">>,
                    <<"uC170", "uC17D">>, <<"uC18C", "uC199">>, <<"uC1A8", "uC1B5">>, <<"uC1C4", "uC1D1">>,
                    <<"uC1E0", "uC1ED">>, <<"uC1FC", "uC209">>, <<"uC218", "uC225">>, <<"uC234", "uC241">>,
                    <<"uC250", "uC25D">>, <<"uC26C", "uC279">>, <<"uC288", "uC295">>, <<"uC2A4", "uC2B1">>,
                    <<"uC2C0", "uC2CD">>, <<"uC2DC", "uC2E9">>, <<"uC2F8", "uC305">>, <<"uC314", "uC321">>,
                    <<"uC330", "uC33D">>, <<"uC34C", "uC359">>, <<"uC368", "uC375">>, <<"uC384", "uC391">>,
                    <<"uC3A0", "uC3AD">>, <<"uC3BC", "uC3C9">>, <<"uC3D8", "uC3E5">>, <<"uC3F4", "uC401">>,
                    <<"uC410", "uC41D">>, <<"uC42C", "uC439">>, <<"uC448", "uC455">>, <<"uC464", "uC471">>,
                    <<"uC480", "uC48D">>, <<"uC49C", "uC4A9">>, <<"uC4B8", "uC4C5">>, <<"uC4D4", "uC4E1">>,
                    <<"uC4F0", "uC4FD">>, <<"uC50C", "uC519">>, <<"uC528", "uC535">>, <<"uC544", "uC551">>,
                    <<"uC560", "uC56D">>, <<"uC57C", "uC589">>, <<"uC598", "uC5A5">>, <<"uC5B4", "uC5C1">>,
                    <<"uC5D0", "uC5DD">>, <<"uC5EC", "uC5F9">>, <<"uC608", "uC615">>, <<"uC624", "uC631">>,
                    <<"uC640", "uC64D">>, <<"uC65C", "uC669">>, <<"uC678", "uC685">>, <<"uC694", "uC6A1">>,
                    <<"uC6B0", "uC6BD">>, <<"uC6CC", "uC6D9">>, <<"uC6E8", "uC6F5">>, <<"uC704", "uC711">>,
                    <<"uC720", "uC72D">>, <<"uC73C", "uC749">>, <<"uC758", "uC765">>, <<"uC774", "uC781">>,
                    <<"uC790", "uC79D">>, <<"uC7AC", "uC7B9">>, <<"uC7C8", "uC7D5">>, <<"uC7E4", "uC7F1">>,
                    <<"uC800", "uC80D">>, <<"uC81C", "uC829">>, <<"uC838", "uC845">>, <<"uC854", "uC861">>,
                    <<"uC870", "uC87D">>, <<"uC88C", "uC899">>, <<"uC8A8", "uC8B5">>, <<"uC8C4", "uC8D1">>,
                    <<"uC8E0", "uC8ED">>, <<"uC8FC", "uC909">>, <<"uC918", "uC925">>, <<"uC934", "uC941">>,
                    <<"uC950", "uC95D">>, <<"uC96C", "uC979">>, <<"uC988", "uC995">>, <<"uC9A4", "uC9B1">>,
                    <<"uC9C0", "uC9CD">>, <<"uC9DC", "uC9E9">>, <<"uC9F8", "uCA05">>, <<"uCA14", "uCA21">>,
                    <<"uCA30", "uCA3D">>, <<"uCA4C", "uCA59">>, <<"uCA68", "uCA75">>, <<"uCA84", "uCA91">>,
                    <<"uCAA0", "uCAAD">>, <<"uCABC", "uCAC9">>, <<"uCAD8", "uCAE5">>, <<"uCAF4", "uCB01">>,
                    <<"uCB10", "uCB1D">>, <<"uCB2C", "uCB39">>, <<"uCB48", "uCB55">>, <<"uCB64", "uCB71">>,
                    <<"uCB80", "uCB8D">>, <<"uCB9C", "uCBA9">>, <<"uCBB8", "uCBC5">>, <<"uCBD4", "uCBE1">>,
                    <<"uCBF0", "uCBFD">>, <<"uCC0C", "uCC19">>, <<"uCC28", "uCC35">>, <<"uCC44", "uCC51">>,
                    <<"uCC60", "uCC6D">>, <<"uCC7C", "uCC89">>, <<"uCC98", "uCCA5">>, <<"uCCB4", "uCCC1">>,
                    <<"uCCD0", "uCCDD">>, <<"uCCEC", "uCCF9">>, <<"uCD08", "uCD15">>, <<"uCD24", "uCD31">>,
                    <<"uCD40", "uCD4D">>, <<"uCD5C", "uCD69">>, <<"uCD78", "uCD85">>, <<"uCD94", "uCDA1">>,
                    <<"uCDB0", "uCDBD">>, <<"uCDCC", "uCDD9">>, <<"uCDE8", "uCDF5">>, <<"uCE04", "uCE11">>,
                    <<"uCE20", "uCE2D">>, <<"uCE3C", "uCE49">>, <<"uCE58", "uCE65">>, <<"uCE74", "uCE81">>,
                    <<"uCE90", "uCE9D">>, <<"uCEAC", "uCEB9">>, <<"uCEC8", "uCED5">>, <<"uCEE4", "uCEF1">>,
                    <<"uCF00", "uCF0D">>, <<"uCF1C", "uCF29">>, <<"uCF38", "uCF45">>, <<"uCF54", "uCF61">>,
                    <<"uCF70", "uCF7D">>, <<"uCF8C", "uCF99">>, <<"uCFA8", "uCFB5">>, <<"uCFC4", "uCFD1">>,
                    <<"uCFE0", "uCFED">>, <<"uCFFC", "uD009">>, <<"uD018", "uD025">>, <<"uD034", "uD041">>,
                    <<"uD050", "uD05D">>, <<"uD06C", "uD079">>, <<"uD088", "uD095">>, <<"uD0A4", "uD0B1">>,
                    <<"uD0C0", "uD0CD">>, <<"uD0DC", "uD0E9">>, <<"uD0F8", "uD105">>, <<"uD114", "uD121">>,
                    <<"uD130", "uD13D">>, <<"uD14C", "uD159">>, <<"uD168", "uD175">>, <<"uD184", "uD191">>,
                    <<"uD1A0", "uD1AD">>, <<"uD1BC", "uD1C9">>, <<"uD1D8", "uD1E5">>, <<"uD1F4", "uD201">>,
                    <<"uD210", "uD21D">>, <<"uD22C", "uD239">>, <<"uD248", "uD255">>, <<"uD264", "uD271">>,
                    <<"uD280", "uD28D">>, <<"uD29C", "uD2A9">>, <<"uD2B8", "uD2C5">>, <<"uD2D4", "uD2E1">>,
                    <<"uD2F0", "uD2FD">>, <<"uD30C", "uD319">>, <<"uD328", "uD335">>, <<"uD344", "uD351">>,
                    <<"uD360", "uD36D">>, <<"uD37C", "uD389">>, <<"uD398", "uD3A5">>, <<"uD3B4", "uD3C1">>,
                    <<"uD3D0", "uD3DD">>, <<"uD3EC", "uD3F9">>, <<"uD408", "uD415">>, <<"uD424", "uD431">>,
                    <<"uD440", "uD44D">>, <<"uD45C", "uD469">>, <<"uD478", "uD485">>, <<"uD494", "uD4A1">>,
                    <<"uD4B0", "uD4BD">>, <<"uD4CC", "uD4D9">>, <<"uD4E8", "uD4F5">>, <<"uD504", "uD511">>,
                    <<"uD520", "uD52D">>, <<"uD53C", "uD549">>, <<"uD558", "uD565">>, <<"uD574", "uD581">>,
                    <<"uD590", "uD59D">>, <<"uD5AC", "uD5B9">>, <<"uD5C8", "uD5D5">>, <<"uD5E4", "uD5F1">>,
                    <<"uD600", "uD60D">>, <<"uD61C", "uD629">>, <<"uD638", "uD645">>, <<"uD654", "uD661">>,
                    <<"uD670", "uD67D">>, <<"uD68C", "uD699">>, <<"uD6A8", "uD6B5">>, <<"uD6C4", "uD6D1">>,
                    <<"uD6E0", "uD6ED">>, <<"uD6FC", "uD709">>, <<"uD718", "uD725">>, <<"uD734", "uD741">>,
                    <<"uD750", "uD75D">>, <<"uD76C", "uD779">>, <<"uD788", "uD795">>},
         u11B5 |-> {<<"uAC00", "uAC0E">>, <<"uAC1C", "uAC2A">>, <<"uAC38", "uAC46">>, <<"uAC54", "uAC62">>,
                    <<"uAC70", "uAC7E">>, <<"uAC8C", "uAC9A">>, <<"uACA8", "uACB6">>, <<"uACC4", "uACD2">>,
                    <<"uACE0", "uACEE">>, <<"uACFC", "uAD0A">>, <<"uAD18", "uAD26">>, <<"uAD34", "uAD42">>,
                    <<"uAD50", "uAD5E">>, <<"uAD6C", "uAD7A">>, <<"uAD88", "uAD96">>, <<"uADA4", "uADB2">>,
                    <<"uADC0", "uADCE">>, <<"uADDC", "uADEA">>, <<"uADF8", "uAE06">>, <<"uAE14", "uAE22">>,
                    <<"uAE30", "uAE3E">>, <<"uAE4C", "uAE5A">>, <<"uAE68", "uAE76">>, <<"uAE84", "uAE92">>,
                    <<"uAEA0", "uAEAE">>, <<"uAEBC", "uAECA">>, <<"uAED8", "uAEE6">>, <<"uAEF4", "uAF02">>,
                    <<"uAF10", "uAF1E">>, <<"uAF2C", "uAF3A">>, <<"uAF48", "uAF56">>, <<"uAF64", "uAF72">>,
                    <<"uAF80", "uAF8E">>, <<"uAF9C", "uAFAA">>, <<"uAFB8", "uAFC6">>, <<"uAFD4", "uAFE2">>,
                    <<"uAFF0", "uAFFE">>, <<"uB00C", "uB01A">>, <<"uB028", "uB036">>, <<"uB044", "uB052">>,
                    <<"uB060", "uB06E">>, <<"uB07C", "uB08A">>, <<"uB098", "uB0A6">>, <<"uB0B4", "uB0C2">>,
                    <<"uB0D0", "uB0DE">>, <<"uB0EC", "uB0FA">>, <<"uB108", "uB116">>, <<"uB124", "uB132">>,
                    <<"uB140", "uB14E">>, <<"uB15C", "uB16A">>, <<"uB178", "uB186">>, <<"uB194", "uB1A2">>,
                    <<"uB1B0", "uB1BE">>, <<"uB1CC", "uB1DA">>, <<"uB1E8", "uB1F6">>, <<"uB204", "uB212">>,
                    <<"uB220", "uB22E">>, <<"uB23C", "uB24A">>, <<"uB258", "uB266">>, <<"uB274", "uB282">>,
                    <<"uB290", "uB29E">>, <<"uB2AC", "uB2BA">>, <<"uB2C8", "uB2D6">>, <<"uB2E4", "uB2F2">>,
                    <<"uB300", "uB30E">>, <<"uB31C", "uB32A">>, <<"uB338", "uB346">>, <<"uB354", "uB362">>,
                    <<"uB370", "uB37E">>, <<"uB38C", "uB39A">>, <<"uB3A8", "uB3B6">>, <<"uB3C4", "uB3D2">>,
                    <<"uB3E0", "uB3EE">>, <<"uB3FC", "uB40A">>, <<"uB418", "uB426">>, <<"uB434", "uB442">>,
                    <<"uB450", "uB45E">>, <<"uB46C", "uB47A">>, <<"uB488", "uB496">>, <<"uB4A4", "uB4B2">>,
                    <<"uB4C0", "uB4CE">>, <<"uB4DC", "uB4EA">>, <<"uB4F8", "uB506">>, <<"uB514", "uB522">>,
                    <<"uB530", "uB53E">>, <<"uB54C", "uB55A">>, <<"uB568", "uB576">>, <<"uB584", "uB592">>,
                    <<"uB5A0", "uB5AE">>, <<"uB5BC", "uB5CA">>, <<"uB5D8", "uB5E6">>, <<"uB5F4", "uB602">>,
                    <<"uB610", "uB61E">>, <<"uB62C", "uB63A">>, <<"uB648", "uB656">>, <<"uB664", "uB672">>,
                    <<"uB680", "uB68E">>, <<"uB69C", "uB6AA">>, <<"uB6B8", "uB6C6">>, <<"uB6D4", "uB6E2">>,
                    <<"uB6F0", "uB6FE">>, <<"uB70C", "uB71A">>, <<"uB728", "uB736">>, <<"uB744", "uB752">>,
                    <<"uB760", "uB76E">>, <<"uB77C", "uB78A">>, <<"uB798", "uB7A6">>, <<"uB7B4", "uB7C2">>,
                    <<"uB7D0", "uB7DE">>, <<"uB7EC", "uB7FA">>, <<"uB808", "uB816">>, <<"uB824", "uB832">>,
                    <<"uB840", "uB84E">>, <<"uB85C", "uB86A">>, <<"uB878", "uB886">>, <<"uB894", "uB8A2">>,
                    <<"uB8B0", "uB8BE">>, <<"uB8CC", "uB8DA">>, <<"uB8E8", "uB8F6">>, <<"uB904", "uB912">>,
                    <<"uB920", "uB92E">>, <<"uB93C", "uB94A">>, <<"uB958", "uB966">>, <<"uB974", "uB982">>,
                    <<"uB990", "uB99E">>, <<"uB9AC", "uB9BA">>, <<"uB9C8", "uB9D6">>, <<"uB9E4", "uB9F2">>,
                    <<"uBA00", "uBA0E">>, <<"uBA1C", "uBA2A">>, <<"uBA38", "uBA46">>, <<"uBA54", "uBA62">>,
                    <<"uBA70", "uBA7E">>, <<"uBA8C", "uBA9A">>, <<"uBAA8", "uBAB6">>, <<"uBAC4", "uBAD2">>,
                    <<"uBAE0", "uBAEE">>, <<"uBAFC", "uBB0A">>, <<"uBB18", "uBB26">>, <<"uBB34", "uBB42">>,
                    <<"uBB50", "uBB5E">>, <<"uBB6C", "uBB7A">>, <<"uBB88", "uBB96">>, <<"uBBA4", "uBBB2">>,
                    <<"uBBC0", "uBBCE">>, <<"uBBDC", "uBBEA">>, <<"uBBF8", "uBC06">>, <<"uBC14", "uBC22">>,
                    <<"uBC30", "uBC3E">>, <<"uBC4C", "uBC5A">>, <<"uBC68", "uBC76">>, <<"uBC84", "uBC92">>,
                    <<"uBCA0", "uBCAE">>, <<"uBCBC", "uBCCA">>, <<"uBCD8", "uBCE6">>, <<"uBCF4", "uBD02">>,
                    <<"uBD10", "uBD1E">>, <<"uBD2C", "uBD3A">>, <<"uBD48", "uBD56">>, <<"uBD64", "uBD72">>,
                    <<"uBD80", "uBD8E">>, <<"uBD9C", "uBDAA">>, <<"uBDB8", "uBDC6">>, <<"uBDD4", "uBDE2">>,
                    <<"uBDF0", "uBDFE">>, <<"uBE0C", "uBE1A">>, <<"uBE28", "uBE36">>, <<"uBE44", "uBE52">>,
                    <<"uBE60", "uBE6E">>, <<"uBE7C", "uBE8A">>, <<"uBE98", "uBEA6">>, <<"uBEB4", "uBEC2">>,
                    <<"uBED0", "uBEDE">>, <<"uBEEC", "uBEFA">>, <<"uBF08", "uBF16">>, <<"uBF24", "uBF32">>,
                    <<"uBF40", "uBF4E">>, <<"uBF5C", "uBF6A">>, <<"uBF78", "uBF86">>, <<"uBF94", "uBFA2">>,
                    <<"uBFB0", "uBFBE">>, <<"uBFCC", "uBFDA">>, <<"uBFE8", "uBFF6">>, <<"uC004", "uC012">>,
                    <<"uC020", "uC02E">>, <<"uC03C", "uC04A">>, <<"uC058", "uC066">>, <<"uC074", "uC082">>,
                    <<"uC090", "uC09E">>, <<"uC0AC", "uC0BA">>, <<"uC0C8", "uC0D6">>, <<"uC0E4", "uC0F2">>,
                    <<"uC100", "uC10E">>, <<"uC11C", "uC12A">>, <<"uC138", "uC146">>, <<"uC154", "uC162">>,
                    <<"uC170", "uC17E">>, <<"uC18C", "uC19A">>, <<"uC1A8", "uC1B6">>, <<"uC1C4", "uC1D2">>,
                    <<"uC1E0", "uC1EE">>, <<"uC1FC", "uC20A">>, <<"uC218", "uC226">>, <<"uC234", "uC242">>,
                    <<"uC250", "uC25E">>, <<"uC26C", "uC27A">>, <<"uC288", "uC296">>, <<"uC2A4", "uC2B2">>,
                    <<"uC2C0", "uC2CE">>, <<"uC2DC", "uC2EA">>, <<"uC2F8", "uC306">>, <<"uC314", "uC322">>,
                    <<"uC330", "uC33E">>, <<"uC34C", "uC35A">>, <<"uC368", "uC376">>, <<"uC384", "uC392">>,
                    <<"uC3A0", "uC3AE">>, <<"uC3BC", "uC3CA">>, <<"uC3D8", "uC3E6">>, <<"uC3F4", "uC402">>,
                    <<"uC410", "uC41E">>, <<"uC42C", "uC43A">>, <<"uC448", "uC456">>, <<"uC464", "uC472">>,
                    <<"uC480", "uC48E">>, <<"uC49C", "uC4AA">>, <<"uC4B8", "uC4C6">>, <<"uC4D4", "uC4E2">>,
                    <<"uC4F0", "uC4FE">>, <<"uC50C", "uC51A">>, <<"uC528", "uC536">>, <<"uC544", "uC552">>,
                    <<"uC560", "uC56E">>, <<"uC57C", "uC58A">>, <<"uC598", "uC5A6">>, <<"uC5B4", "uC5C2">>,
                    <<"uC5D0", "uC5DE">>, <<"uC5EC", "uC5FA">>, <<"uC608", "uC616">>, <<"uC624", "uC632">>,
                    <<"uC640", "uC64E">>, <<"uC65C", "uC66A">>, <<"uC678", "uC686">>, <<"uC694", "uC6A2">>,
                    <<"uC6B0", "uC6BE">>, <<"uC6CC", "uC6DA">>, <<"uC6E8", "uC6F6">>, <<"uC704", "uC712">>,
                    <<"uC720", "uC72E">>, <<"uC73C", "uC74A">>, <<"uC758", "uC766">>, <<"uC774", "uC782">>,
                    <<"uC790", "uC79E">>, <<"uC7AC", "uC7BA">>, <<"uC7C8", "uC7D6">>, <<"uC7E4", "uC7F2">>,
                    <<"uC800", "uC80E">>, <<"uC81C", "uC82A">>, <<"uC838", "uC846">>, <<"uC854", "uC862">>,
                    <<"uC870", "uC87E">>, <<"uC88C", "uC89A">>, <<"uC8A8", "uC8B6">>, <<"uC8C4", "uC8D2">>,
                    <<"uC8E0", "uC8EE">>, <<"uC8FC", "uC90A">>, <<"uC918", "uC926">>, <<"uC934", "uC942">>,
                    <<"uC950", "uC95E">>, <<"uC96C", "uC97A">>, <<"uC988", "uC996">>, <<"uC9A4", "uC9B2">>,
                    <<"uC9C0", "uC9CE">>, <<"uC9DC", "uC9EA">>, <<"uC9F8", "uCA06">>, <<"uCA14", "uCA22">>,
                    <<"uCA30", "uCA3E">>, <<"uCA4C", "uCA5A">>, <<"uCA68", "uCA76">>, <<"uCA84", "uCA92">>,
                    <<"uCAA0", "uCAAE">>, <<"uCABC", "uCACA">>, <<"uCAD8", "uCAE6">>, <<"uCAF4", "uCB02">>,
                    <<"uCB10", "uCB1E">>, <<"uCB2C", "uCB3A">>, <<"uCB48", "uCB56">>, <<"uCB64", "uCB72">>,
                    <<"uCB80", "uCB8E">>, <<"uCB9C", "uCBAA">>, <<"uCBB8", "uCBC6">>, <<"uCBD4", "uCBE2">>,
                    <<"uCBF0", "uCBFE">>, <<"uCC0C", "uCC1A">>, <<"uCC28", "uCC36">>, <<"uCC44", "uCC52">>,
                    <<"uCC60", "uCC6E">>, <<"uCC7C", "uCC8A">>, <<"uCC98", "uCCA6">>, <<"uCCB4", "uCCC2">>,
                    <<"uCCD0", "uCCDE">>, <<"uCCEC", "uCCFA">>, <<"uCD08", "uCD16">>, <<"uCD24", "uCD32">>,
                    <<"uCD40", "uCD4E">>, <<"uCD5C", "uCD6A">>, <<"uCD78", "uCD86">>, <<"uCD94", "uCDA2">>,
                    <<"uCDB0", "uCDBE">>, <<"uCDCC", "uCDDA">>, <<"uCDE8", "uCDF6">>, <<"uCE04", "uCE12">>,
                    <<"uCE20", "uCE2E">>, <<"uCE3C", "uCE4A">>, <<"uCE58", "uCE66">>, <<"uCE74", "uCE82">>,
                    <<"uCE90", "uCE9E">>, <<"uCEAC", "uCEBA">>, <<"uCEC8", "uCED6">>, <<"uCEE4", "uCEF2">>,
                    <<"uCF00", "uCF0E">>, <<"uCF1C", "uCF2A">>, <<"uCF38", "uCF46">>, <<"uCF54", "uCF62">>,
                    <<"uCF70", "uCF7E">>, <<"uCF8C", "uCF9A">>, <<"uCFA8", "uCFB6">>, <<"uCFC4", "uCFD2">>,
                    <<"uCFE0", "uCFEE">>, <<"uCFFC", "uD00A">>, <<"uD018", "uD026">>, <<"uD034", "uD042">>,
                    <<"uD050", "uD05E">>, <<"uD06C", "uD07A">>, <<"uD088", "uD096">>, <<"uD0A4", "uD0B2">>,
                    <<"uD0C0", "uD0CE">>, <<"uD0DC", "uD0EA">>, <<"uD0F8", "uD106">>, <<"uD114", "uD122">>,
                    <<"uD130", "uD13E">>, <<"uD14C", "uD15A">>, <<"uD168", "uD176">>, <<"uD184", "uD192">>,
                    <<"uD1A0", "uD1AE">>, <<"uD1BC", "uD1CA">>, <<"uD1D8", "uD1E6">>, <<"uD1F4", "uD202">>,
                    <<"uD210", "uD21E">>, <<"uD22C", "uD23A">>, <<"uD248", "uD256">>, <<"uD264", "uD272">>,
                    <<"uD280", "uD28E">>, <<"uD29C", "uD2AA">>, <<"uD2B8", "uD2C6">>, <<"uD2D4", "uD2E2">>,
                    <<"uD2F0", "uD2FE">>, <<"uD30C", "uD31A">>, <<"uD328", "uD336">>, <<"uD344", "uD352">>,
                    <<"uD360", "uD36E">>, <<"uD37C", "uD38A">>, <<"uD398", "uD3A6">>, <<"uD3B4", "uD3C2">>,
                    <<"uD3D0", "uD3DE">>, <<"uD3EC", "uD3FA">>, <<"uD408", "uD416">>, <<"uD424", "uD432">>,
                    <<"uD440", "uD44E">>, <<"uD45C", "uD46A">>, <<"uD478", "uD486">>, <<"uD494", "uD4A2">>,
                    <<"uD4B0", "uD4BE">>, <<"uD4CC", "uD4DA">>, <<"uD4E8", "uD4F6">>, <<"uD504", "uD512">>,
                    <<"uD520", "uD52E">>, <<"uD53C", "uD54A">>, <<"uD558", "uD566">>, <<"uD574", "uD582">>,
                    <<"uD590", "uD59E">>, <<"uD5AC", "uD5BA">>, <<"uD5C8", "uD5D6">>, <<"uD5E4", "uD5F2">>,
                    <<"uD600", "uD60E">>, <<"uD61C", "uD62A">>, <<"uD638", "uD646">>, <<"uD654", "uD662">>,
                    <<"uD670", "uD67E">>, <<"uD68C", "uD69A">>, <<"uD6A8", "uD6B6">>, <<"uD6C4", "uD6D2">>,
                    <<"uD6E0", "uD6EE">>, <<"uD6FC", "uD70A">>, <<"uD718", "uD726">>, <<"uD734", "uD742">>,
                    <<"uD750", "uD75E">>, <<"uD76C", "uD77A">>, <<"uD788", "uD796">>},
         u11B6 |-> {<<"uAC00", "uAC0F">>, <<"uAC1C", "uAC2B">>, <<"uAC38", "uAC47">>, <<"uAC54", "uAC63">>,
                    <<"uAC70", "uAC7F">>, <<"uAC8C", "uAC9B">>, <<"uACA8", "uACB7">>, <<"uACC4", "uACD3">>,
                    <<"uACE0", "uACEF">>, <<"uACFC", "uAD0B">>, <<"uAD18", "uAD27">>, <<"uAD34", "uAD43">>,
                    <<"uAD50", "uAD5F">>, <<"uAD6C", "uAD7B">>, <<"uAD88", "uAD97">>, <<"uADA4", "uADB3">>,
                    <<"uADC0", "uADCF">>, <<"uADDC", "uADEB">>, <<"uADF8", "uAE07">>, <<"uAE14", "uAE23">>,
                    <<"uAE30", "uAE3F">>, <<"uAE4C", "uAE5B">>, <<"uAE68", "uAE77">>, <<"uAE84", "uAE93">>,
                    <<"uAEA0", "uAEAF">>, <<"uAEBC", "uAECB">>, <<"uAED8", "uAEE7">>, <<"uAEF4", "uAF03">>,
                    <<"uAF10", "uAF1F">>, <<"uAF2C", "uAF3B">>, <<"uAF48", "uAF57">>, <<"uAF64", "uAF73">>,
                    <<"uAF80", "uAF8F">>, <<"uAF9C", "uAFAB">>, <<"uAFB8", "uAFC7">>, <<"uAFD4", "uAFE3">>,
                    <<"uAFF0", "uAFFF">>, <<"uB00C", "uB01B">>, <<"uB028", "uB037">>, <<"uB044", "uB053">>,
                    <<"uB060", "uB06F">>, <<"uB07C", "uB08B">>, <<"uB098", "uB0A7">>, <<"uB0B4", "uB0C3">>,
                    <<"uB0D0", "uB0DF">>, <<"uB0EC", "uB0FB">>, <<"uB108", "uB117">>, <<"uB124", "uB133">>,
                    <<"uB140", "uB14F">>, <<"uB15C", "uB16B">>, <<"uB178", "uB187">>, <<"uB194", "uB1A3">>,
                    <<"uB1B0", "uB1BF">>, <<"uB1CC", "uB1DB">>, <<"uB1E8", "uB1F7">>, <<"uB204", "uB213">>,
                    <<"uB220", "uB22F">>, <<"uB23C", "uB24B">>, <<"uB258", "uB267">>, <<"uB274", "uB283">>,
                    <<"uB290", "uB29F">>, <<"uB2AC", "uB2BB">>, <<"uB2C8", "uB2D7">>, <<"uB2E4", "uB2F3">>,
                    <<"uB300", "uB30F">>, <<"uB31C", "uB32B">>, <<"uB338", "uB347">>, <<"uB354", "uB363">>,
                    <<"uB370", "uB37F">>, <<"uB38C", "uB39B">>, <<"uB3A8", "uB3B7">>, <<"uB3C4", "uB3D3">>,
                    <<"uB3E0", "uB3EF">>, <<"uB3FC", "uB40B">>, <<"uB418", "uB427">>, <<"uB434", "uB443">>,
                    <<"uB450", "uB45F">>, <<"uB46C", "uB47B">>, <<"uB488", "uB497">>, <<"uB4A4", "uB4B3">>,
                    <<"uB4C0", "uB4CF">>, <<"uB4DC", "uB4EB">>, <<"uB4F8", "uB507">>, <<"uB514", "uB523">>,
                    <<"uB530", "uB53F">>, <<"uB54C", "uB55B">>, <<"uB568", "uB577">>, <<"uB584", "uB593">>,
                    <<"uB5A0", "uB5AF">>, <<"uB5BC", "uB5CB">>, <<"uB5D8", "uB5E7">>, <<"uB5F4", "uB603">>,
                    <<"uB610", "uB61F">>, <<"uB62C", "uB63B">>, <<"uB648", "uB657">>, <<"uB664", "uB673">>,
                    <<"uB680", "uB68F">>, <<"uB69C", "uB6AB">>, <<"uB6B8", "uB6C7">>, <<"uB6D4", "uB6E3">>,
                    <<"uB6F0", "uB6FF">>, <<"uB70C", "uB71B">>, <<"uB728", "uB737">>, <<"uB744", "uB753">>,
                    <<"uB760", "uB76F">>, <<"uB77C", "uB78B">>, <<"uB798", "uB7A7">>, <<"uB7B4", "uB7C3">>,
                    <<"uB7D0", "uB7DF">>, <<"uB7EC", "uB7FB">>, <<"uB808", "uB817">>, <<"uB824", "uB833">>,
                    <<"uB840", "uB84F">>, <<"uB85C", "uB86B">>, <<"uB878", "uB887">>, <<"uB894", "uB8A3">>,
                    <<"uB8B0", "uB8BF">>, <<"uB8CC", "uB8DB">>, <<"uB8E8", "uB8F7">>, <<"uB904", "uB913">>,
                    <<"uB920", "uB92F">>, <<"uB93C", "uB94B">>, <<"uB958", "uB967">>, <<"uB974", "uB983">>,
                    <<"uB990", "uB99F">>, <<"uB9AC", "uB9BB">>, <<"uB9C8", "uB9D7">>, <<"uB9E4", "uB9F3">>,
                    <<"uBA00", "uBA0F">>, <<"uBA1C", "uBA2B">>, <<"uBA38", "uBA47">>, <<"uBA54", "uBA63">>,
                    <<"uBA70", "uBA7F">>, <<"uBA8C", "uBA9B">>, <<"uBAA8", "uBAB7">>, <<"uBAC4", "uBAD3">>,
                    <<"uBAE0", "uBAEF">>, <<"uBAFC", "uBB0B">>, <<"uBB18", "uBB27">>, <<"uBB34", "uBB43">>,
                    <<"uBB50", "uBB5F">>, <<"uBB6C", "uBB7B">>, <<"uBB88", "uBB97">>, <<"uBBA4", "uBBB3">>,
                    <<"uBBC0", "uBBCF">>, <<"uBBDC", "uBBEB">>, <<"uBBF8", "uBC07">>, <<"uBC14", "uBC23">>,
                    <<"uBC30", "uBC3F">>, <<"uBC4C", "uBC5B">>, <<"uBC68", "uBC77">>, <<"uBC84", "uBC93">>,
                    <<"uBCA0", "uBCAF">>, <<"uBCBC", "uBCCB">>, <<"uBCD8", "uBCE7">>, <<"uBCF4", "uBD03">>,
                    <<"uBD10", "uBD1F">>, <<"uBD2C", "uBD3B">>, <<"uBD48", "uBD57">>, <<"uBD64", "uBD73">>,
                    <<"uBD80", "uBD8F">>, <<"uBD9C", "uBDAB">>, <<"uBDB8", "uBDC7">>, <<"uBDD4", "uBDE3">>,
                    <<"uBDF0", "uBDFF">>, <<"uBE0C", "uBE1B">>, <<"uBE28", "uBE37">>, <<"uBE44", "uBE53">>,
                    <<"uBE60", "uBE6F">>, <<"uBE7C", "uBE8B">>, <<"uBE98", "uBEA7">>, <<"uBEB4", "uBEC3">>,
                    <<"uBED0", "uBEDF">>, <<"uBEEC", "uBEFB">>, <<"uBF08", "uBF17">>, <<"uBF24", "uBF33">>,
                    <<"uBF40", "uBF4F">>, <<"uBF5C", "uBF6B">>, <<"uBF78", "uBF87">>, <<"uBF94", "uBFA3">>,
                    <<"uBFB0", "uBFBF">>, <<"uBFCC", "uBFDB">>, <<"uBFE8", "uBFF7">>, <<"uC004", "uC013">>,
                    <<"uC020", "uC02F">>, <<"uC03C", "uC04B">>, <<"uC058", "uC067">>, <<"uC074", "uC083">>,
                    <<"uC090", "uC09F">>, <<"uC0AC", "uC0BB">>, <<"uC0C8", "uC0D7">>, <<"uC0E4", "uC0F3">>,
                    <<"uC100", "uC10F">>, <<"uC11C", "uC12B">>, <<"uC138", "uC147">>, <<"uC154", "uC163">>,
                    <<"uC170", "uC17F">>, <<"uC18C", "uC19B">>, <<"uC1A8", "uC1B7">>, <<"uC1C4", "uC1D3">>,
                    <<"uC1E0", "uC1EF">>, <<"uC1FC", "uC20B">>, <<"uC218", "uC227">>, <<"uC234", "uC243">>,
                    <<"uC250", "uC25F">>, <<"uC26C", "uC27B">>, <<"uC288", "uC297">>, <<"uC2A4", "uC2B3">>,
                    <<"uC2C0", "uC2CF">>, <<"uC2DC", "uC2EB">>, <<"uC2F8", "uC307">>, <<"uC314", "uC323">>,
                    <<"uC330", "uC33F">>, <<"uC34C", "uC35B">>, <<"uC368", "uC377">>, <<"uC384", "uC393">>,
                    <<"uC3A0", "uC3AF">>, <<"uC3BC", "uC3CB">>, <<"uC3D8", "uC3E7">>, <<"uC3F4", "uC403">>,
                    <<"uC410", "uC41F">>, <<"uC42C", "uC43B">>, <<"uC448", "uC457">>, <<"uC464", "uC473">>,
                    <<"uC480", "uC48F">>, <<"uC49C", "uC4AB">>, <<"uC4B8", "uC4C7">>, <<"uC4D4", "uC4E3">>,
                    <<"uC4F0", "uC4FF">>, <<"uC50C", "uC51B">>, <<"uC528", "uC537">>, <<"uC544", "uC553">>,
                    <<"uC560", "uC56F">>, <<"uC57C", "uC58B">>, <<"uC598", "uC5A7">>, <<"uC5B4", "uC5C3">>,
                    <<"uC5D0", "uC5DF">>, <<"uC5EC", "uC5FB">>, <<"uC608", "uC617">>, <<"uC624", "uC633">>,
                    <<"uC640", "uC64F">>, <<"uC65C", "uC66B">>, <<"uC678", "uC687">>, <<"uC694", "uC6A3">>,
                    <<"uC6B0", "uC6BF">>, <<"uC6CC", "uC6DB">>, <<"uC6E8", "uC6F7">>, <<"uC704", "uC713">>,
                    <<"uC720", "uC72F">>, <<"uC73C", "uC74B">>, <<"uC758", "uC767">>, <<"uC774", "uC783">>,
                    <<"uC790", "uC79F">>, <<"uC7AC", "uC7BB">>, <<"uC7C8", "uC7D7">>, <<"uC7E4", "uC7F3">>,
                    <<"uC800", "uC80F">>, <<"uC81C", "uC82B">>, <<"uC838", "uC847">>, <<"uC854", "uC863">>,
                    <<"uC870", "uC87F">>, <<"uC88C", "uC89B">>, <<"uC8A8", "uC8B7">>, <<"uC8C4", "uC8D3">>,
                    <<"uC8E0", "uC8EF">>, <<"uC8FC", "uC90B">>, <<"uC918", "uC927">>, <<"uC934", "uC943">>,
                    <<"uC950", "uC95F">>, <<"uC96C", "uC97B">>, <<"uC988", "uC997">>, <<"uC9A4", "uC9B3">>,
                    <<"uC9C0", "uC9CF">>, <<"uC9DC", "uC9EB">>, <<"uC9F8", "uCA07">>, <<"uCA14", "uCA23">>,
                    <<"uCA30", "uCA3F">>, <<"uCA4C", "uCA5B">>, <<"uCA68", "uCA77">>, <<"uCA84", "uCA93">>,
                    <<"uCAA0", "uCAAF">>, <<"uCABC", "uCACB">>, <<"uCAD8", "uCAE7">>, <<"uCAF4", "uCB03">>,
                    <<"uCB10", "uCB1F">>, <<"uCB2C", "uCB3B">>, <<"uCB48", "uCB57">>, <<"uCB64", "uCB73">>,
                    <<"uCB80", "uCB8F">>, <<"uCB9C", "uCBAB">>, <<"uCBB8", "uCBC7">>, <<"uCBD4", "uCBE3">>,
                    <<"uCBF0", "uCBFF">>, <<"uCC0C", "uCC1B">>, <<"uCC28", "uCC37">>, <<"uCC44", "uCC53">>,
                    <<"uCC60", "uCC6F">>, <<"uCC7C", "uCC8B">>, <<"uCC98", "uCCA7">>, <<"uCCB4", "uCCC3">>,
                    <<"uCCD0", "uCCDF">>, <<"uCCEC", "uCCFB">>, <<"uCD08", "uCD17">>, <<"uCD24", "uCD33">>,
                    <<"uCD40", "uCD4F">>, <<"uCD5C", "uCD6B">>, <<"uCD78", "uCD87">>, <<"uCD94", "uCDA3">>,
                    <<"uCDB0", "uCDBF">>, <<"uCDCC", "uCDDB">>, <<"uCDE8", "uCDF7">>, <<"uCE04", "uCE13">>,
                    <<"uCE20", "uCE2F">>, <<"uCE3C", "uCE4B">>, <<"uCE58", "uCE67">>, <<"uCE74", "uCE83">>,
                    <<"uCE90", "uCE9F">>, <<"uCEAC", "uCEBB">>, <<"uCEC8", "uCED7">>, <<"uCEE4", "uCEF3">>,
                    <<"uCF00", "uCF0F">>, <<"uCF1C", "uCF2B">>, <<"uCF38", "uCF47">>, <<"uCF54", "uCF63">>,
                    <<"uCF70", "uCF7F">>, <<"uCF8C", "uCF9B">>, <<"uCFA8", "uCFB7">>, <<"uCFC4", "uCFD3">>,
                    <<"uCFE0", "uCFEF">>, <<"uCFFC", "uD00B">>, <<"uD018", "uD027">>, <<"uD034", "uD043">>,
                    <<"uD050", "uD05F">>, <<"uD06C", "uD07B">>, <<"uD088", "uD097">>, <<"uD0A4", "uD0B3">>,
                    <<"uD0C0", "uD0CF">>, <<"uD0DC", "uD0EB">>, <<"uD0F8", "uD107">>, <<"uD114", "uD123">>,
                    <<"uD130", "uD13F">>, <<"uD14C", "uD15B">>, <<"uD168", "uD177">>, <<"uD184", "uD193">>,
                    <<"uD1A0", "uD1AF">>, <<"uD1BC", "uD1CB">>, <<"uD1D8", "uD1E7">>, <<"uD1F4", "uD203">>,
                    <<"uD210", "uD21F">>, <<"uD22C", "uD23B">>, <<"uD248", "uD257">>, <<"uD264", "uD273">>,
                    <<"uD280", "uD28F">>, <<"uD29C", "uD2AB">>, <<"uD2B8", "uD2C7">>, <<"uD2D4", "uD2E3">>,
                    <<"uD2F0", "uD2FF">>, <<"uD30C", "uD31B">>, <<"uD328", "uD337">>, <<"uD344", "uD353">>,
                    <<"uD360", "uD36F">>, <<"uD37C", "uD38B">>, <<"uD398", "uD3A7">>, <<"uD3B4", "uD3C3">>,
                    <<"uD3D0", "uD3DF">>, <<"uD3EC", "uD3FB">>, <<"uD408", "uD417">>, <<"uD424", "uD433">>,
                    <<"uD440", "uD44F">>, <<"uD45C", "uD46B">>, <<"uD478", "uD487">>, <<"uD494", "uD4A3">>,
                    <<"uD4B0", "uD4BF">>, <<"uD4CC", "uD4DB">>, <<"uD4E8", "uD4F7">>, <<"uD504", "uD513">>,
                    <<"uD520", "uD52F">>, <<"uD53C", "uD54B">>, <<"uD558", "uD567">>, <<"uD574", "uD583">>,
                    <<"uD590", "uD59F">>, <<"uD5AC", "uD5BB">>, <<"uD5C8", "uD5D7">>, <<"uD5E4", "uD5F3">>,
                    <<"uD600", "uD60F">>, <<"uD61C", "uD62B">>, <<"uD638", "uD647">>, <<"uD654", "uD663">>,
                    <<"uD670", "uD67F">>, <<"uD68C", "uD69B">>, <<"uD6A8", "uD6B7">>, <<"uD6C4", "uD6D3">>,
                    <<"uD6E0", "uD6EF">>, <<"uD6FC", "uD70B">>, <<"uD718", "uD727">>, <<"uD734", "uD743">>,
                    <<"uD750", "uD75F">>, <<"uD76C", "uD77B">>, <<"uD788", "uD797">>},
         u11B7 |-> {<<"uAC00", "uAC10">>, <<"uAC1C", "uAC2C">>, <<"uAC38", "uAC48">>, <<"uAC54", "uAC64">>,
                    <<"uAC70", "uAC80">>, <<"uAC8C", "uAC9C">>, <<"uACA8", "uACB8">>, <<"uACC4", "uACD4">>,
                    <<"uACE0", "uACF0">>, <<"uACFC", "uAD0C">>, <<"uAD18", "uAD28">>, <<"uAD34", "uAD44">>,
                    <<"uAD50", "uAD60">>, <<"uAD6C", "uAD7C">>, <<"uAD88", "uAD98">>, <<"uADA4", "uADB4">>,
                    <<"uADC0", "uADD0">>, <<"uADDC", "uADEC">>, <<"uADF8", "uAE08">>, <<"uAE14", "uAE24">>,
                    <<"uAE30", "uAE40">>, <<"uAE4C", "uAE5C">>, <<"uAE68", "uAE78">>, <<"uAE84", "uAE94">>,
                    <<"uAEA0", "uAEB0">>, <<"uAEBC", "uAECC">>, <<"uAED8", "uAEE8">>, <<"uAEF4", "uAF04">>,
                    <<"uAF10", "uAF20">>, <<"uAF2C", "uAF3C">>, <<"uAF48", "uAF58">>, <<"uAF64", "uAF74">>,
                    <<"uAF80", "uAF90">>, <<"uAF9C", "uAFAC">>, <<"uAFB8", "uAFC8">>, <<"uAFD4", "uAFE4">>,
                    <<"uAFF0", "uB000">>, <<"uB00C", "uB01C">>, <<"uB028", "uB038">>, <<"uB044", "uB054">>,
                    <<"uB060", "uB070">>, <<"uB07C", "uB08C">>, <<"uB098", "uB0A8">>, <<"uB0B4", "uB0C4">>,
                    <<"uB0D0", "uB0E0">>, <<"uB0EC", "uB0FC">>, <<"uB108", "uB118">>, <<"uB124", "uB134">>,
                    <<"uB140", "uB150">>, <<"uB15C", "uB16C">>, <<"uB178", "uB188">>, <<"uB194", "uB1A4">>,
                    <<"uB1B0", "uB1C0">>, <<"uB1CC", "uB1DC">>, <<"uB1E8", "uB1F8">>, <<"uB204", "uB214">>,
                    <<"uB220", "uB230">>, <<"uB23C", "uB24C">>, <<"uB258", "uB268">>, <<"uB274", "uB284">>,
                    <<"uB290", "uB2A0">>, <<"uB2AC", "uB2BC">>, <<"uB2C8", "uB2D8">>, <<"uB2E4", "uB2F4">>,
                    <<"uB300", "uB310">>, <<"uB31C", "uB32C">>, <<"uB338", "uB348">>, <<"uB354", "uB364">>,
                    <<"uB370", "uB380">>, <<"uB38C", "uB39C">>, <<"uB3A8", "uB3B8">>, <<"uB3C4", "uB3D4">>,
                    <<"uB3E0", "uB3F0">>, <<"uB3FC", "uB40C">>, <<"uB418", "uB428">>, <<"uB434", "uB444">>,
                    <<"uB450", "uB460">>, <<"uB46C", "uB47C">>, <<"uB488", "uB498">>, <<"uB4A4", "uB4B4">>,
                    <<"uB4C0", "uB4D0">>, <<"uB4DC", "uB4EC">>, <<"uB4F8", "uB508">>, <<"uB514", "uB524">>,
                    <<"uB530", "uB540">>, <<"uB54C", "uB55C">>, <<"uB568", "uB578">>, <<"uB584", "uB594">>,
                    <<"uB5A0", "uB5B0">>, <<"uB5BC", "uB5CC">>, <<"uB5D8", "uB5E8">>, <<"uB5F4", "uB604">>,
                    <<"uB610", "uB620">>, <<"uB62C", "uB63C">>, <<"uB648", "uB658">>, <<"uB664", "uB674">>,
                    <<"uB680", "uB690">>, <<"uB69C", "uB6AC">>, <<"uB6B8", "uB6C8">>, <<"uB6D4", "uB6E4">>,
                    <<"uB6F0", "uB700">>, <<"uB70C", "uB71C">>, <<"uB728", "uB738">>, <<"uB744", "uB754">>,
                    <<"uB760", "uB770">>, <<"uB77C", "uB78C">>, <<"uB798", "uB7A8">>, <<"uB7B4", "uB7C4">>,
                    <<"uB7D0", "uB7E0">>, <<"uB7EC", "uB7FC">>, <<"uB808", "uB818">>, <<"uB824", "uB834">>,
                    <<"uB840", "uB850">>, <<"uB85C", "uB86C">>, <<"uB878", "uB888">>, <<"uB894", "uB8A4">>,
                    <<"uB8B0", "uB8C0">>, <<"uB8CC", "uB8DC">>, <<"uB8E8", "uB8F8">>, <<"uB904", "uB914">>,
                    <<"uB920", "uB930">>, <<"uB93C", "uB94C">>, <<"uB958", "uB968">>, <<"uB974", "uB984">>,
                    <<"uB990", "uB9A0">>, <<"uB9AC", "uB9BC">>, <<"uB9C8", "uB9D8">>, <<"uB9E4", "uB9F4">>,
                    <<"uBA00", "uBA10">>, <<"uBA1C", "uBA2C">>, <<"uBA38", "uBA48">>, <<"uBA54", "uBA64">>,
                    <<"uBA70", "uBA80">>, <<"uBA8C", "uBA9C">>, <<"uBAA8", "uBAB8">>, <<"uBAC4", "uBAD4">>,
                    <<"uBAE0", "uBAF0">>, <<"uBAFC", "uBB0C">>, <<"uBB18", "uBB28">>, <<"uBB34", "uBB44">>,
                    <<"uBB50", "uBB60">>, <<"uBB6C", "uBB7C">>, <<"uBB88", "uBB98">>, <<"uBBA4", "uBBB4">>,
                    <<"uBBC0", "uBBD0">>, <<"uBBDC", "uBBEC">>, <<"uBBF8", "uBC08">>, <<"uBC14", "uBC24">>,
                    <<"uBC30", "uBC40">>, <<"uBC4C", "uBC5C">>, <<"uBC68", "uBC78">>, <<"uBC84", "uBC94">>,
                    <<"uBCA0", "uBCB0">>, <<"uBCBC", "uBCCC">>, <<"uBCD8", "uBCE8">>, <<"uBCF4", "uBD04">>,
                    <<"uBD10", "uBD20">>, <<"uBD2C", "uBD3C">>, <<"uBD48", "uBD58">>, <<"uBD64", "uBD74">>,
                    <<"uBD80", "uBD90">>, <<"uBD9C", "uBDAC">>, <<"uBDB8", "uBDC8">>, <<"uBDD4", "uBDE4">>,
                    <<"uBDF0", "uBE00">>, <<"uBE0C", "uBE1C">>, <<"uBE28", "uBE38">>, <<"uBE44", "uBE54">>,
                    <<"uBE60", "uBE70">>, <<"uBE7C", "uBE8C">>, <<"uBE98", "uBEA8">>, <<"uBEB4", "uBEC4">>,
                    <<"uBED0", "uBEE0">>, <<"uBEEC", "uBEFC">>, <<"uBF08", "uBF18">>, <<"uBF24", "uBF34">>,
                    <<"uBF40", "uBF50">>, <<"uBF5C", "uBF6C">>, <<"uBF78", "uBF88">>, <<"uBF94", "uBFA4">>,
                    <<"uBFB0", "uBFC0">>, <<"uBFCC", "uBFDC">>, <<"uBFE8", "uBFF8">>, <<"uC004", "uC014">>,
                    <<"uC020", "uC030">>, <<"uC03C", "uC04C">>, <<"uC058", "uC068">>, <<"uC074", "uC084">>,
                    <<"uC090", "uC0A0">>, <<"uC0AC", "uC0BC">>, <<"uC0C8", "uC0D8">>, <<"uC0E4", "uC0F4">>,
                    <<"uC100", "uC110">>, <<"uC11C", "uC12C">>, <<"uC138", "uC148">>, <<"uC154", "uC164">>,
                    <<"uC170", "uC180">>, <<"uC18C", "uC19C">>, <<"uC1A8", "uC1B8">>, <<"uC1C4", "uC1D4">>,
                    <<"uC1E0", "uC1F0">>, <<"uC1FC", "uC20C">>, <<"uC218", "uC228">>, <<"uC234", "uC244">>,
                    <<"uC250", "uC260">>, <<"uC26C", "uC27C">>, <<"uC288", "uC298">>, <<"uC2A4", "uC2B4">>,
                    <<"uC2C0", "uC2D0">>, <<"uC2DC", "uC2EC">>, <<"uC2F8", "uC308">>, <<"uC314", "uC324">>,
                    <<"uC330", "uC340">>, <<"uC34C", "uC35C">>, <<"uC368", "uC378">>, <<"uC384", "uC394">>,
                    <<"uC3A0", "uC3B0">>, <<"uC3BC", "uC3CC">>, <<"uC3D8", "uC3E8">>, <<"uC3F4", "uC404">>,
                    <<"uC410", "uC420">>, <<"uC42C", "uC43C">>, <<"uC448", "uC458">>, <<"uC464", "uC474">>,
                    <<"uC480", "uC490">>, <<"uC49C", "uC4AC">>, <<"uC4B8", "uC4C8">>, <<"uC4D4", "uC4E4">>,
                    <<"uC4F0", "uC500">>, <<"uC50C", "uC51C">>, <<"uC528", "uC538">>, <<"uC544", "uC554">>,
                    <<"uC560", "uC570">>, <<"uC57C", "uC58C">>, <<"uC598", "uC5A8">>, <<"uC5B4", "uC5C4">>,
                    <<"uC5D0", "uC5E0">>, <<"uC5EC", "uC5FC">>, <<"uC608", "uC618">>, <<"uC624", "uC634">>,
                    <<"uC640", "uC650">>, <<"uC65C", "uC66C">>, <<"uC678", "uC688">>, <<"uC694", "uC6A4">>,
                    <<"uC6B0", "uC6C0">>, <<"uC6CC", "uC6DC">>, <<"uC6E8", "uC6F8">>, <<"uC704", "uC714">>,
                    <<"uC720", "uC730">>, <<"uC73C", "uC74C">>, <<"uC758", "uC768">>, <<"uC774", "uC784">>,
                    <<"uC790", "uC7A0">>, <<"uC7AC", "uC7BC">>, <<"uC7C8", "uC7D8">>, <<"uC7E4", "uC7F4">>,
                    <<"uC800", "uC810">>, <<"uC81C", "uC82C">>, <<"uC838", "uC848">>, <<"uC854", "uC864">>,
                    <<"uC870", "uC880">>, <<"uC88C", "uC89C">>, <<"uC8A8", "uC8B8">>, <<"uC8C4", "uC8D4">>,
                    <<"uC8E0", "uC8F0">>, <<"uC8FC", "uC90C">>, <<"uC918", "uC928">>, <<"uC934", "uC944">>,
                    <<"uC950", "uC960">>, <<"uC96C", "uC97C">>, <<"uC988", "uC998">>, <<"uC9A4", "uC9B4">>,
                    <<"uC9C0", "uC9D0">>, <<"uC9DC", "uC9EC">>, <<"uC9F8", "uCA08">>, <<"uCA14", "uCA24">>,
                    <<"uCA30", "uCA40">>, <<"uCA4C", "uCA5C">>, <<"uCA68", "uCA78">>, <<"uCA84", "uCA94">>,
                    <<"uCAA0", "uCAB0">>, <<"uCABC", "uCACC">>, <<"uCAD8", "uCAE8">>, <<"uCAF4", "uCB04">>,
                    <<"uCB10", "uCB20">>, <<"uCB2C", "uCB3C">>, <<"uCB48", "uCB58">>, <<"uCB64", "uCB74">>,
                    <<"uCB80", "uCB90">>, <<"uCB9C", "uCBAC">>, <<"uCBB8", "uCBC8">>, <<"uCBD4", "uCBE4">>,
                    <<"uCBF0", "uCC00">>, <<"uCC0C", "uCC1C">>, <<"uCC28", "uCC38">>, <<"uCC44", "uCC54">>,
                    <<"uCC60", "uCC70">>, <<"uCC7C", "uCC8C">>, <<"uCC98", "uCCA8">>, <<"uCCB4", "uCCC4">>,
                    <<"uCCD0", "uCCE0">>, <<"uCCEC", "uCCFC">>, <<"uCD08", "uCD18">>, <<"uCD24", "uCD34">>,
                    <<"uCD40", "uCD50">>, <<"uCD5C", "uCD6C">>, <<"uCD78", "uCD88">>, <<"uCD94", "uCDA4">>,
                    <<"uCDB0", "uCDC0">>, <<"uCDCC", "uCDDC">>, <<"uCDE8", "uCDF8">>, <<"uCE04", "uCE14">>,
                    <<"uCE20", "uCE30">>, <<"uCE3C", "uCE4C">>, <<"uCE58", "uCE68">>, <<"uCE74", "uCE84">>,
                    <<"uCE90", "uCEA0">>, <<"uCEAC", "uCEBC">>, <<"uCEC8", "uCED8">>, <<"uCEE4", "uCEF4">>,
                    <<"uCF00", "uCF10">>, <<"uCF1C", "uCF2C">>, <<"uCF38", "uCF48">>, <<"uCF54", "uCF64">>,
                    <<"uCF70", "uCF80">>, <<"uCF8C", "uCF9C">>, <<"uCFA8", "uCFB8">>, <<"uCFC4", "uCFD4">>,
                    <<"uCFE0", "uCFF0">>, <<"uCFFC", "uD00C">>, <<"uD018", "uD028">>, <<"uD034", "uD044">>,
                    <<"uD050", "uD060">>, <<"uD06C", "uD07C">>, <<"uD088", "uD098">>, <<"uD0A4", "uD0B4">>,
                    <<"uD0C0", "uD0D0">>, <<"uD0DC", "uD0EC">>, <<"uD0F8", "uD108">>, <<"uD114", "uD124">>,
                    <<"uD130", "uD140">>, <<"uD14C", "uD15C">>, <<"uD168", "uD178">>, <<"uD184", "uD194">>,
                    <<"uD1A0", "uD1B0">>, <<"uD1BC", "uD1CC">>, <<"uD1D8", "uD1E8">>, <<"uD1F4", "uD204">>,
                    <<"uD210", "uD220">>, <<"uD22C", "uD23C">>, <<"uD248", "uD258">>, <<"uD264", "uD274">>,
                    <<"uD280", "uD290">>, <<"uD29C", "uD2AC">>, <<"uD2B8", "uD2C8">>, <<"uD2D4", "uD2E4">>,
                    <<"uD2F0", "uD300">>, <<"uD30C", "uD31C">>, <<"uD328", "uD338">>, <<"uD344", "uD354">>,
                    <<"uD360", "uD370">>, <<"uD37C", "uD38C">>, <<"uD398", "uD3A8">>, <<"uD3B4", "uD3C4">>,
                    <<"uD3D0", "uD3E0">>, <<"uD3EC", "uD3FC">>, <<"uD408", "uD418">>, <<"uD424", "uD434">>,
                    <<"uD440", "uD450">>, <<"uD45C", "uD46C">>, <<"uD478", "uD488">>, <<"uD494", "uD4A4">>,
                    <<"uD4B0", "uD4C0">>, <<"uD4CC", "uD4DC">>, <<"uD4E8", "uD4F8">>, <<"uD504", "uD514">>,
                    <<"uD520", "uD530">>, <<"uD53C", "uD54C">>, <<"uD558", "uD568">>, <<"uD574", "uD584">>,
                    <<"uD590", "uD5A0">>, <<"uD5AC", "uD5BC">>, <<"uD5C8", "uD5D8">>, <<"uD5E4", "uD5F4">>,
                    <<"uD600", "uD610">>, <<"uD61C", "uD62C">>, <<"uD638", "uD648">>, <<"uD654", "uD664">>,
                    <<"uD670", "uD680">>, <<"uD68C", "uD69C">>, <<"uD6A8", "uD6B8">>, <<"uD6C4", "uD6D4">>,
                    <<"uD6E0", "uD6F0">>, <<"uD6FC", "uD70C">>, <<"uD718", "uD728">>, <<"uD734", "uD744">>,
                    <<"uD750", "uD760">>, <<"uD76C", "uD77C">>, <<"uD788", "uD798">>},
         u11B8 |-> {<<"uAC00", "uAC11">>, <<"uAC1C", "uAC2D">>, <<"uAC38", "uAC49">>, <<"uAC54", "uAC65">>,
                    <<"uAC70", "uAC81">>, <<"uAC8C", "uAC9D">>, <<"uACA8", "uACB9">>, <<"uACC4", "uACD5">>,
                    <<"uACE0", "uACF1">>, <<"uACFC", "uAD0D">>, <<"uAD18", "uAD29">>, <<"uAD34", "uAD45">>,
                    <<"uAD50", "uAD61">>, <<"uAD6C", "uAD7D">>, <<"uAD88", "uAD99">>, <<"uADA4", "uADB5">>,
                    <<"uADC0", "uADD1">>, <<"uADDC", "uADED">>, <<"uADF8", "uAE09">>, <<"uAE14", "uAE25">>,
                    <<"uAE30", "uAE41">>, <<"uAE4C", "uAE5D">>, <<"uAE68", "uAE79">>, <<"uAE84", "uAE95">>,
                    <<"uAEA0", "uAEB1">>, <<"uAEBC", "uAECD">>, <<"uAED8", "uAEE9">>, <<"uAEF4", "uAF05">>,
                    <<"uAF10", "uAF21">>, <<"uAF2C", "uAF3D">>, <<"uAF48", "uAF59">>, <<"uAF64", "uAF75">>,
                    <<"uAF80", "uAF91">>, <<"uAF9C", "uAFAD">>, <<"uAFB8", "uAFC9">>, <<"uAFD4", "uAFE5">>,
                    <<"uAFF0", "uB001">>, <<"uB00C", "uB01D">>, <<"uB028", "uB039">>, <<"uB044", "uB055">>,
                    <<"uB060", "uB071">>, <<"uB07C", "uB08D">>, <<"uB098", "uB0A9">>, <<"uB0B4", "uB0C5">>,
                    <<"uB0D0", "uB0E1">>, <<"uB0EC", "uB0FD">>, <<"uB108", "uB119">>, <<"uB124", "uB135">>,
                    <<"uB140", "uB151">>, <<"uB15C", "uB16D">>, <<"uB178", "uB189">>, <<"uB194", "uB1A5">>,
                    <<"uB1B0", "uB1C1">>, <<"uB1CC", "uB1DD">>, <<"uB1E8", "uB1F9">>, <<"uB204", "uB215">>,
                    <<"uB220", "uB231">>, <<"uB23C", "uB24D">>, <<"uB258", "uB269">>, <<"uB274", "uB285">>,
                    <<"uB290", "uB2A1">>, <<"uB2AC", "uB2BD">>, <<"uB2C8", "uB2D9">>, <<"uB2E4", "uB2F5">>,
                    <<"uB300", "uB311">>, <<"uB31C", "uB32D">>, <<"uB338", "uB349">>, <<"uB354", "uB365">>,
                    <<"uB370", "uB381">>, <<"uB38C", "uB39D">>, <<"uB3A8", "uB3B9">>, <<"uB3C4", "uB3D5">>,
                    <<"uB3E0", "uB3F1">>, <<"uB3FC", "uB40D">>, <<"uB418", "uB429">>, <<"uB434", "uB445">>,
                    <<"uB450", "uB461">>, <<"uB46C", "uB47D">>, <<"uB488", "uB499">>, <<"uB4A4", "uB4B5">>,
                    <<"uB4C0", "uB4D1">>, <<"uB4DC", "uB4ED">>, <<"uB4F8", "uB509">>, <<"uB514", "uB525">>,
                    <<"uB530", "uB541">>, <<"uB54C", "uB55D">>, <<"uB568", "uB579">>, <<"uB584", "uB595">>,
                    <<"uB5A0", "uB5B1">>, <<"uB5BC", "uB5CD">>, <<"uB5D8", "uB5E9">>, <<"uB5F4", "uB605">>,
                    <<"uB610", "uB621">>, <<"uB62C", "uB63D">>, <<"uB648", "uB659">>, <<"uB664", "uB675">>,
                    <<"uB680", "uB691">>, <<"uB69C", "uB6AD">>, <<"uB6B8", "uB6C9">>, <<"uB6D4", "uB6E5">>,
                    <<"uB6F0", "uB701">>, <<"uB70C", "uB71D">>, <<"uB728", "uB739">>, <<"uB744", "uB755">>,
                    <<"uB760", "uB771">>, <<"uB77C", "uB78D">>, <<"uB798", "uB7A9">>, <<"uB7B4", "uB7C5">>,
                    <<"uB7D0", "uB7E1">>, <<"uB7EC", "uB7FD">>, <<"uB808", "uB819">>, <<"uB824", "uB835">>,
                    <<"uB840", "uB851">>, <<"uB85C", "uB86D">>, <<"uB878", "uB889">>, <<"uB894", "uB8A5">>,
                    <<"uB8B0", "uB8C1">>, <<"uB8CC", "uB8DD">>, <<"uB8E8", "uB8F9">>, <<"uB904", "uB915">>,
                    <<"uB920", "uB931">>, <<"uB93C", "uB94D">>, <<"uB958", "uB969">>, <<"uB974", "uB985">>,
                    <<"uB990", "uB9A1">>, <<"uB9AC", "uB9BD">>, <<"uB9C8", "uB9D9">>, <<"uB9E4", "uB9F5">>,
                    <<"uBA00", "uBA11">>, <<"uBA1C", "uBA2D">>, <<"uBA38", "uBA49">>, <<"uBA54", "uBA65">>,
                    <<"uBA70", "uBA81">>, <<"uBA8C", "uBA9D">>, <<"uBAA8", "uBAB9">>, <<"uBAC4", "uBAD5">>,
                    <<"uBAE0", "uBAF1">>, <<"uBAFC", "uBB0D">>, <<"uBB18", "uBB29">>, <<"uBB34", "uBB45">>,
                    <<"uBB50", "uBB61">>, <<"uBB6C", "uBB7D">>, <<"uBB88", "uBB99">>, <<"uBBA4", "uBBB5">>,
                    <<"uBBC0", "uBBD1">>, <<"uBBDC", "uBBED">>, <<"uBBF8", "uBC09">>, <<"uBC14", "uBC25">>,
                    <<"uBC30", "uBC41">>, <<"uBC4C", "uBC5D">>, <<"uBC68", "uBC79">>, <<"uBC84", "uBC95">>,
                    <<"uBCA0", "uBCB1">>, <<"uBCBC", "uBCCD">>, <<"uBCD8", "uBCE9">>, <<"uBCF4", "uBD05">>,
                    <<"uBD10", "uBD21">>, <<"uBD2C", "uBD3D">>, <<"uBD48", "uBD59">>, <<"uBD64", "uBD75">>,
                    <<"uBD80", "uBD91">>, <<"uBD9C", "uBDAD">>, <<"uBDB8", "uBDC9">>, <<"uBDD4", "uBDE5">>,
                    <<"uBDF0", "uBE01">>, <<"uBE0C", "uBE1D">>, <<"uBE28", "uBE39">>, <<"uBE44", "uBE55">>,
                    <<"uBE60", "uBE71">>, <<"uBE7C", "uBE8D">>, <<"uBE98", "uBEA9">>, <<"uBEB4", "uBEC5">>,
                    <<"uBED0", "uBEE1">>, <<"uBEEC", "uBEFD">>, <<"uBF08", "uBF19">>, <<"uBF24", "uBF35">>,
                    <<"uBF40", "uBF51">>, <<"uBF5C", "uBF6D">>, <<"uBF78", "uBF89">>, <<"uBF94", "uBFA5">>,
                    <<"uBFB0", "uBFC1">>, <<"uBFCC", "uBFDD">>, <<"uBFE8", "uBFF9">>, <<"uC004", "uC015">>,
                    <<"uC020", "uC031">>, <<"uC03C", "uC04D">>, <<"uC058", "uC069">>, <<"uC074", "uC085">>,
                    <<"uC090", "uC0A1">>, <<"uC0AC", "uC0BD">>, <<"uC0C8", "uC0D9">>, <<"uC0E4", "uC0F5">>,
                    <<"uC100", "uC111">>, <<"uC11C", "uC12D">>, <<"uC138", "uC149">>, <<"uC154", "uC165">>,
                    <<"uC170", "uC181">>, <<"uC18C", "uC19D">>, <<"uC1A8", "uC1B9">>, <<"uC1C4", "uC1D5">>,
                    <<"uC1E0", "uC1F1">>, <<"uC1FC", "uC20D">>, <<"uC218", "uC229">>, <<"uC234", "uC245">>,
                    <<"uC250", "uC261">>, <<"uC26C", "uC27D">>, <<"uC288", "uC299">>, <<"uC2A4", "uC2B5">>,
                    <<"uC2C0", "uC2D1">>, <<"uC2DC", "uC2ED">>, <<"uC2F8", "uC309">>, <<"uC314", "uC325">>,
                    <<"uC330", "uC341">>, <<"uC34C", "uC35D">>, <<"uC368", "uC379">>, <<"uC384", "uC395">>,
                    <<"uC3A0", "uC3B1">>, <<"uC3BC", "uC3CD">>, <<"uC3D8", "uC3E9">>, <<"uC3F4", "uC405">>,
                    <<"uC410", "uC421">>, <<"uC42C", "uC43D">>, <<"uC448", "uC459">>, <<"uC464", "uC475">>,
                    <<"uC480", "uC491">>, <<"uC49C", "uC4AD">>, <<"uC4B8", "uC4C9">>, <<"uC4D4", "uC4E5">>,
                    <<"uC4F0", "uC501">>, <<"uC50C", "uC51D">>, <<"uC528", "uC539">>, <<"uC544", "uC555">>,
                    <<"uC560", "uC571">>, <<"uC57C", "uC58D">>, <<"uC598", "uC5A9">>, <<"uC5B4", "uC5C5">>,
                    <<"uC5D0", "uC5E1">>, <<"uC5EC", "uC5FD">>, <<"uC608", "uC619">>, <<"uC624", "uC635">>,
                    <<"uC640", "uC651">>, <<"uC65C", "uC66D">>, <<"uC678", "uC689">>, <<"uC694", "uC6A5">>,
                    <<"uC6B0", "uC6C1">>, <<"uC6CC", "uC6DD">>, <<"uC6E8", "uC6F9">>, <<"uC704", "uC715">>,
                    <<"uC720", "uC731">>, <<"uC73C", "uC74D">>, <<"uC758", "uC769">>, <<"uC774", "uC785">>,
                    <<"uC790", "uC7A1">>, <<"uC7AC", "uC7BD">>, <<"uC7C8", "uC7D9">>, <<"uC7E4", "uC7F5">>,
                    <<"uC800", "uC811">>, <<"uC81C", "uC82D">>, <<"uC838", "uC849">>, <<"uC854", "uC865">>,
                    <<"uC870", "uC881">>, <<"uC88C", "uC89D">>, <<"uC8A8", "uC8B9">>, <<"uC8C4", "uC8D5">>,
                    <<"uC8E0", "uC8F1">>, <<"uC8FC", "uC90D">>, <<"uC918", "uC929">>, <<"uC934", "uC945">>,
                    <<"uC950", "uC961">>, <<"uC96C", "uC97D">>, <<"uC988", "uC999">>, <<"uC9A4", "uC9B5">>,
                    <<"uC9C0", "uC9D1">>, <<"uC9DC", "uC9ED">>, <<"uC9F8", "uCA09">>, <<"uCA14", "uCA25">>,
                    <<"uCA30", "uCA41">>, <<"uCA4C", "uCA5D">>, <<"uCA68", "uCA79">>, <<"uCA84", "uCA95">>,
                    <<"uCAA0", "uCAB1">>, <<"uCABC", "uCACD">>, <<"uCAD8", "uCAE9">>, <<"uCAF4", "uCB05">>,
                    <<"uCB10", "uCB21">>, <<"uCB2C", "uCB3D">>, <<"uCB48", "uCB59">>, <<"uCB64", "uCB75">>,
                    <<"uCB80", "uCB91">>, <<"uCB9C", "uCBAD">>, <<"uCBB8", "uCBC9">>, <<"uCBD4", "uCBE5">>,
                    <<"uCBF0", "uCC01">>, <<"uCC0C", "uCC1D">>, <<"uCC28", "uCC39">>, <<"uCC44", "uCC55">>,
                    <<"uCC60", "uCC71">>, <<"uCC7C", "uCC8D">>, <<"uCC98", "uCCA9">>, <<"uCCB4", "uCCC5">>,
                    <<"uCCD0", "uCCE1">>, <<"uCCEC", "uCCFD">>, <<"uCD08", "uCD19">>, <<"uCD24", "uCD35">>,
                    <<"uCD40", "uCD51">>, <<"uCD5C", "uCD6D">>, <<"uCD78", "uCD89">>, <<"uCD94", "uCDA5">>,
                    <<"uCDB0", "uCDC1">>, <<"uCDCC", "uCDDD">>, <<"uCDE8", "uCDF9">>, <<"uCE04", "uCE15">>,
                    <<"uCE20", "uCE31">>, <<"uCE3C", "uCE4D">>, <<"uCE58", "uCE69">>, <<"uCE74", "uCE85">>,
                    <<"uCE90", "uCEA1">>, <<"uCEAC", "uCEBD">>, <<"uCEC8", "uCED9">>, <<"uCEE4", "uCEF5">>,
                    <<"uCF00", "uCF11">>, <<"uCF1C", "uCF2D">>, <<"uCF38", "uCF49">>, <<"uCF54", "uCF65">>,
                    <<"uCF70", "uCF81">>, <<"uCF8C", "uCF9D">>, <<"uCFA8", "uCFB9">>, <<"uCFC4", "uCFD5">>,
                    <<"uCFE0", "uCFF1">>, <<"uCFFC", "uD00D">>, <<"uD018", "uD029">>, <<"uD034", "uD045">>,
                    <<"uD050", "uD061">>, <<"uD06C", "uD07D">>, <<"uD088", "uD099">>, <<"uD0A4", "uD0B5">>,
                    <<"uD0C0", "uD0D1">>, <<"uD0DC", "uD0ED">>, <<"uD0F8", "uD109">>, <<"uD114", "uD125">>,
                    <<"uD130", "uD141">>, <<"uD14C", "uD15D">>, <<"uD168", "uD179">>, <<"uD184", "uD195">>,
                    <<"uD1A0", "uD1B1">>, <<"uD1BC", "uD1CD">>, <<"uD1D8", "uD1E9">>, <<"uD1F4", "uD205">>,
                    <<"uD210", "uD221">>, <<"uD22C", "uD23D">>, <<"uD248", "uD259">>, <<"uD264", "uD275">>,
                    <<"uD280", "uD291">>, <<"uD29C", "uD2AD">>, <<"uD2B8", "uD2C9">>, <<"uD2D4", "uD2E5">>,
                    <<"uD2F0", "uD301">>, <<"uD30C", "uD31D">>, <<"uD328", "uD339">>, <<"uD344", "uD355">>,
                    <<"uD360", "uD371">>, <<"uD37C", "uD38D">>, <<"uD398", "uD3A9">>, <<"uD3B4", "uD3C5">>,
                    <<"uD3D0", "uD3E1">>, <<"uD3EC", "uD3FD">>, <<"uD408", "uD419">>, <<"uD424", "uD435">>,
                    <<"uD440", "uD451">>, <<"uD45C", "uD46D">>, <<"uD478", "uD489">>, <<"uD494", "uD4A5">>,
                    <<"uD4B0", "uD4C1">>, <<"uD4CC", "uD4DD">>, <<"uD4E8", "uD4F9">>, <<"uD504", "uD515">>,
                    <<"uD520", "uD531">>, <<"uD53C", "uD54D">>, <<"uD558", "uD569">>, <<"uD574", "uD585">>,
                    <<"uD590", "uD5A1">>, <<"uD5AC", "uD5BD">>, <<"uD5C8", "uD5D9">>, <<"uD5E4", "uD5F5">>,
                    <<"uD600", "uD611">>, <<"uD61C", "uD62D">>, <<"uD638", "uD649">>, <<"uD654", "uD665">>,
                    <<"uD670", "uD681">>, <<"uD68C", "uD69D">>, <<"uD6A8", "uD6B9">>, <<"uD6C4", "uD6D5">>,
                    <<"uD6E0", "uD6F1">>, <<"uD6FC", "uD70D">>, <<"uD718", "uD729">>, <<"uD734", "uD745">>,
                    <<"uD750", "uD761">>, <<"uD76C", "uD77D">>, <<"uD788", "uD799">>},
         u11B9 |-> {<<"uAC00", "uAC12">>, <<"uAC1C", "uAC2E">>, <<"uAC38", "uAC4A">>, <<"uAC54", "uAC66">>,
                    <<"uAC70", "uAC82">>, <<"uAC8C", "uAC9E">>, <<"uACA8", "uACBA">>, <<"uACC4", "uACD6">>,
                    <<"uACE0", "uACF2">>, <<"uACFC", "uAD0E">>, <<"uAD18", "uAD2A">>, <<"uAD34", "uAD46">>,
                    <<"uAD50", "uAD62">>, <<"uAD6C", "uAD7E">>, <<"uAD88", "uAD9A">>, <<"uADA4", "uADB6">>,
                    <<"uADC0", "uADD2">>, <<"uADDC", "uADEE">>, <<"uADF8", "uAE0A">>, <<"uAE14", "uAE26">>,
                    <<"uAE30", "uAE42">>, <<"uAE4C", "uAE5E">>, <<"uAE68", "uAE7A">>, <<"uAE84", "uAE96">>,
                    <<"uAEA0", "uAEB2">>, <<"uAEBC", "uAECE">>, <<"uAED8", "uAEEA">>, <<"uAEF4", "uAF06">>,
                    <<"uAF10", "uAF22">>, <<"uAF2C", "uAF3E">>, <<"uAF48", "uAF5A">>, <<"uAF64", "uAF76">>,
                    <<"uAF80", "uAF92">>, <<"uAF9C", "uAFAE">>, <<"uAFB8", "uAFCA">>, <<"uAFD4", "uAFE6">>,
                    <<"uAFF0", "uB002">>, <<"uB00C", "uB01E">>, <<"uB028", "uB03A">>, <<"uB044", "uB056">>,
                    <<"uB060", "uB072">>, <<"uB07C", "uB08E">>, <<"uB098", "uB0AA">>, <<"uB0B4", "uB0C6">>,
                    <<"uB0D0", "uB0E2">>, <<"uB0EC", "uB0FE">>, <<"uB108", "uB11A">>, <<"uB124", "uB136">>,
                    <<"uB140", "uB152">>, <<"uB15C", "uB16E">>, <<"uB178", "uB18A">>, <<"uB194", "uB1A6">>,
                    <<"uB1B0", "uB1C2">>, <<"uB1CC", "uB1DE">>, <<"uB1E8", "uB1FA">>, <<"uB204", "uB216">>,
                    <<"uB220", "uB232">>, <<"uB23C", "uB24E">>, <<"uB258", "uB26A">>, <<"uB274", "uB286">>,
                    <<"uB290", "uB2A2">>, <<"uB2AC", "uB2BE">>, <<"uB2C8", "uB2DA">>, <<"uB2E4", "uB2F6">>,
                    <<"uB300", "uB312">>, <<"uB31C", "uB32E">>, <<"uB338", "uB34A">>, <<"uB354", "uB366">>,
                    <<"uB370", "uB382">>, <<"uB38C", "uB39E">>, <<"uB3A8", "uB3BA">>, <<"uB3C4", "uB3D6">>,
                    <<"uB3E0", "uB3F2">>, <<"uB3FC", "uB40E">>, <<"uB418", "uB42A">>, <<"uB434", "uB446">>,
                    <<"uB450", "uB462">>, <<"uB46C", "uB47E">>, <<"uB488", "uB49A">>, <<"uB4A4", "uB4B6">>,
                    <<"uB4C0", "uB4D2">>, <<"uB4DC", "uB4EE">>, <<"uB4F8", "uB50A">>, <<"uB514", "uB526">>,
                    <<"uB530", "uB542">>, <<"uB54C", "uB55E">>, <<"uB568", "uB57A">>, <<"uB584", "uB596">>,
                    <<"uB5A0", "uB5B2">>, <<"uB5BC", "uB5CE">>, <<"uB5D8", "uB5EA">>, <<"uB5F4", "uB606">>,
                    <<"uB610", "uB622">>, <<"uB62C", "uB63E">>, <<"uB648", "uB65A">>, <<"uB664", "uB676">>,
                    <<"uB680", "uB692">>, <<"uB69C", "uB6AE">>, <<"uB6B8", "uB6CA">>, <<"uB6D4", "uB6E6">>,
                    <<"uB6F0", "uB702">>, <<"uB70C", "uB71E">>, <<"uB728", "uB73A">>, <<"uB744", "uB756">>,
                    <<"uB760", "uB772">>, <<"uB77C", "uB78E">>, <<"uB798", "uB7AA">>, <<"uB7B4", "uB7C6">>,
                    <<"uB7D0", "uB7E2">>, <<"uB7EC", "uB7FE">>, <<"uB808", "uB81A">>, <<"uB824", "uB836">>,
                    <<"uB840", "uB852">>, <<"uB85C", "uB86E">>, <<"uB878", "uB88A">>, <<"uB894", "uB8A6">>,
                    <<"uB8B0", "uB8C2">>, <<"uB8CC", "uB8DE">>, <<"uB8E8", "uB8FA">>, <<"uB904", "uB916">>,
                    <<"uB920", "uB932">>, <<"uB93C", "uB94E">>, <<"uB958", "uB96A">>, <<"uB974", "uB986">>,
                    <<"uB990", "uB9A2">>, <<"uB9AC", "uB9BE">>, <<"uB9C8", "uB9DA">>, <<"uB9E4", "uB9F6">>,
                    <<"uBA00", "uBA12">>, <<"uBA1C", "uBA2E">>, <<"uBA38", "uBA4A">>, <<"uBA54", "uBA66">>,
                    <<"uBA70", "uBA82">>, <<"uBA8C", "uBA9E">>, <<"uBAA8", "uBABA">>, <<"uBAC4", "uBAD6">>,
                    <<"uBAE0", "uBAF2">>, <<"uBAFC", "uBB0E">>, <<"uBB18", "uBB2A">>, <<"uBB34", "uBB46">>,
                    <<"uBB50", "uBB62">>, <<"uBB6C", "uBB7E">>, <<"uBB88", "uBB9A">>, <<"uBBA4", "uBBB6">>,
                    <<"uBBC0", "uBBD2">>, <<"uBBDC", "uBBEE">>, <<"uBBF8", "uBC0A">>, <<"uBC14", "uBC26">>,
                    <<"uBC30", "uBC42">>, <<"uBC4C", "uBC5E">>, <<"uBC68", "uBC7A">>, <<"uBC84", "uBC96">>,
                    <<"uBCA0", "uBCB2">>, <<"uBCBC", "uBCCE">>, <<"uBCD8", "uBCEA">>, <<"uBCF4", "uBD06">>,
                    <<"uBD10", "uBD22">>, <<"uBD2C", "uBD3E">>, <<"uBD48", "uBD5A">>, <<"uBD64", "uBD76">>,
                    <<"uBD80", "uBD92">>, <<"uBD9C", "uBDAE">>, <<"uBDB8", "uBDCA">>, <<"uBDD4", "uBDE6">>,
                    <<"uBDF0", "uBE02">>, <<"uBE0C", "uBE1E">>, <<"uBE28", "uBE3A">>, <<"uBE44", "uBE56">>,
                    <<"uBE60", "uBE72">>, <<"uBE7C", "uBE8E">>, <<"uBE98", "uBEAA">>, <<"uBEB4", "uBEC6">>,
                    <<"uBED0", "uBEE2">>, <<"uBEEC", "uBEFE">>, <<"uBF08", "uBF1A">>, <<"uBF24", "uBF36">>,
                    <<"uBF40", "uBF52">>, <<"uBF5C", "uBF6E">>, <<"uBF78", "uBF8A">>, <<"uBF94", "uBFA6">>,
                    <<"uBFB0", "uBFC2">>, <<"uBFCC", "uBFDE">>, <<"uBFE8", "uBFFA">>, <<"uC004", "uC016">>,
                    <<"uC020", "uC032">>, <<"uC03C", "uC04E">>, <<"uC058", "uC06A">>, <<"uC074", "uC086">>,
                    <<"uC090", "uC0A2">>, <<"uC0AC", "uC0BE">>, <<"uC0C8", "uC0DA">>, <<"uC0E4", "uC0F6">>,
                    <<"uC100", "uC112">>, <<"uC11C", "uC12E">>, <<"uC138", "uC14A">>, <<"uC154", "uC166">>,
                    <<"uC170", "uC182">>, <<"uC18C", "uC19E">>, <<"uC1A8", "uC1BA">>, <<"uC1C4", "uC1D6">>,
                    <<"uC1E0", "uC1F2">>, <<"uC1FC", "uC20E">>, <<"uC218", "uC22A">>, <<"uC234", "uC246">>,
                    <<"uC250", "uC262">>, <<"uC26C", "uC27E">>, <<"uC288", "uC29A">>, <<"uC2A4", "uC2B6">>,
                    <<"uC2C0", "uC2D2">>, <<"uC2DC", "uC2EE">>, <<"uC2F8", "uC30A">>, <<"uC314", "uC326">>,
                    <<"uC330", "uC342">>, <<"uC34C", "uC35E">>, <<"uC368", "uC37A">>, <<"uC384", "uC396">>,
                    <<"uC3A0", "uC3B2">>, <<"uC3BC", "uC3CE">>, <<"uC3D8", "uC3EA">>, <<"uC3F4", "uC406">>,
                    <<"uC410", "uC422">>, <<"uC42C", "uC43E">>, <<"uC448", "uC45A">>, <<"uC464", "uC476">>,
                    <<"uC480", "uC492">>, <<"uC49C", "uC4AE">>, <<"uC4B8", "uC4CA">>, <<"uC4D4", "uC4E6">>,
                    <<"uC4F0", "uC502">>, <<"uC50C", "uC51E">>, <<"uC528", "uC53A">>, <<"uC544", "uC556">>,
                    <<"uC560", "uC572">>, <<"uC57C", "uC58E">>, <<"uC598", "uC5AA">>, <<"uC5B4", "uC5C6">>,
                    <<"uC5D0", "uC5E2">>, <<"uC5EC", "uC5FE">>, <<"uC608", "uC61A">>, <<"uC624", "uC636">>,
                    <<"uC640", "uC652">>, <<"uC65C", "uC66E">>, <<"uC678", "uC68A">>, <<"uC694", "uC6A6">>,
                    <<"uC6B0", "uC6C2">>, <<"uC6CC", "uC6DE">>, <<"uC6E8", "uC6FA">>, <<"uC704", "uC716">>,
                    <<"uC720", "uC732">>, <<"uC73C", "uC74E">>, <<"uC758", "uC76A">>, <<"uC774", "uC786">>,
                    <<"uC790", "uC7A2">>, <<"uC7AC", "uC7BE">>, <<"uC7C8", "uC7DA">>, <<"uC7E4", "uC7F6">>,
                    <<"uC800", "uC812">>, <<"uC81C", "uC82E">>, <<"uC838", "uC84A">>, <<"uC854", "uC866">>,
                    <<"uC870", "uC882">>, <<"uC88C", "uC89E">>, <<"uC8A8", "uC8BA">>, <<"uC8C4", "uC8D6">>,
                    <<"uC8E0", "uC8F2">>, <<"uC8FC", "uC90E">>, <<"uC918", "uC92A">>, <<"uC934", "uC946">>,
                    <<"uC950", "uC962">>, <<"uC96C", "uC97E">>, <<"uC988", "uC99A">>, <<"uC9A4", "uC9B6">>,
                    <<"uC9C0", "uC9D2">>, <<"uC9DC", "uC9EE">>, <<"uC9F8", "uCA0A">>, <<"uCA14", "uCA26">>,
                    <<"uCA30", "uCA42">>, <<"uCA4C", "uCA5E">>, <<"uCA68", "uCA7A">>, <<"uCA84", "uCA96">>,
                    <<"uCAA0", "uCAB2">>, <<"uCABC", "uCACE">>, <<"uCAD8", "uCAEA">>, <<"uCAF4", "uCB06">>,
                    <<"uCB10", "uCB22">>, <<"uCB2C", "uCB3E">>, <<"uCB48", "uCB5A">>, <<"uCB64", "uCB76">>,
                    <<"uCB80", "uCB92">>, <<"uCB9C", "uCBAE">>, <<"uCBB8", "uCBCA">>, <<"uCBD4", "uCBE6">>,
                    <<"uCBF0", "uCC02">>, <<"uCC0C", "uCC1E">>, <<"uCC28", "uCC3A">>, <<"uCC44", "uCC56">>,
                    <<"uCC60", "uCC72">>, <<"uCC7C", "uCC8E">>, <<"uCC98", "uCCAA">>, <<"uCCB4", "uCCC6">>,
                    <<"uCCD0", "uCCE2">>, <<"uCCEC", "uCCFE">>, <<"uCD08", "uCD1A">>, <<"uCD24", "uCD36">>,
                    <<"uCD40", "uCD52">>, <<"uCD5C", "uCD6E">>, <<"uCD78", "uCD8A">>, <<"uCD94", "uCDA6">>,
                    <<"uCDB0", "uCDC2">>, <<"uCDCC", "uCDDE">>, <<"uCDE8", "uCDFA">>, <<"uCE04", "uCE16">>,
                    <<"uCE20", "uCE32">>, <<"uCE3C", "uCE4E">>, <<"uCE58", "uCE6A">>, <<"uCE74", "uCE86">>,
                    <<"uCE90", "uCEA2">>, <<"uCEAC", "uCEBE">>, <<"uCEC8", "uCEDA">>, <<"uCEE4", "uCEF6">>,
                    <<"uCF00", "uCF12">>, <<"uCF1C", "uCF2E">>, <<"uCF38", "uCF4A">>, <<"uCF54", "uCF66">>,
                    <<"uCF70", "uCF82">>, <<"uCF8C", "uCF9E">>, <<"uCFA8", "uCFBA">>, <<"uCFC4", "uCFD6">>,
                    <<"uCFE0", "uCFF2">>, <<"uCFFC", "uD00E">>, <<"uD018", "uD02A">>, <<"uD034", "uD046">>,
                    <<"uD050", "uD062">>, <<"uD06C", "uD07E">>, <<"uD088", "uD09A">>, <<"uD0A4", "uD0B6">>,
                    <<"uD0C0", "uD0D2">>, <<"uD0DC", "uD0EE">>, <<"uD0F8", "uD10A">>, <<"uD114", "uD126">>,
                    <<"uD130", "uD142">>, <<"uD14C", "uD15E">>, <<"uD168", "uD17A">>, <<"uD184", "uD196">>,
                    <<"uD1A0", "uD1B2">>, <<"uD1BC", "uD1CE">>, <<"uD1D8", "uD1EA">>, <<"uD1F4", "uD206">>,
                    <<"uD210", "uD222">>, <<"uD22C", "uD23E">>, <<"uD248", "uD25A">>, <<"uD264", "uD276">>,
                    <<"uD280", "uD292">>, <<"uD29C", "uD2AE">>, <<"uD2B8", "uD2CA">>, <<"uD2D4", "uD2E6">>,
                    <<"uD2F0", "uD302">>, <<"uD30C", "uD31E">>, <<"uD328", "uD33A">>, <<"uD344", "uD356">>,
                    <<"uD360", "uD372">>, <<"uD37C", "uD38E">>, <<"uD398", "uD3AA">>, <<"uD3B4", "uD3C6">>,
                    <<"uD3D0", "uD3E2">>, <<"uD3EC", "uD3FE">>, <<"uD408", "uD41A">>, <<"uD424", "uD436">>,
                    <<"uD440", "uD452">>, <<"uD45C", "uD46E">>, <<"uD478", "uD48A">>, <<"uD494", "uD4A6">>,
                    <<"uD4B0", "uD4C2">>, <<"uD4CC", "uD4DE">>, <<"uD4E8", "uD4FA">>, <<"uD504", "uD516">>,
                    <<"uD520", "uD532">>, <<"uD53C", "uD54E">>, <<"uD558", "uD56A">>, <<"uD574", "uD586">>,
                    <<"uD590", "uD5A2">>, <<"uD5AC", "uD5BE">>, <<"uD5C8", "uD5DA">>, <<"uD5E4", "uD5F6">>,
                    <<"uD600", "uD612">>, <<"uD61C", "uD62E">>, <<"uD638", "uD64A">>, <<"uD654", "uD666">>,
                    <<"uD670", "uD682">>, <<"uD68C", "uD69E">>, <<"uD6A8", "uD6BA">>, <<"uD6C4", "uD6D6">>,
                    <<"uD6E0", "uD6F2">>, <<"uD6FC", "uD70E">>, <<"uD718", "uD72A">>, <<"uD734", "uD746">>,
                    <<"uD750", "uD762">>, <<"uD76C", "uD77E">>, <<"uD788", "uD79A">>},
         u11BA |-> {<<"uAC00", "uAC13">>, <<"uAC1C", "uAC2F">>, <<"uAC38", "uAC4B">>, <<"uAC54", "uAC67">>,
                    <<"uAC70", "uAC83">>, <<"uAC8C", "uAC9F">>, <<"uACA8", "uACBB">>, <<"uACC4", "uACD7">>,
                    <<"uACE0", "uACF3">>, <<"uACFC", "uAD0F">>, <<"uAD18", "uAD2B">>, <<"uAD34", "uAD47">>,
                    <<"uAD50", "uAD63">>, <<"uAD6C", "uAD7F">>, <<"uAD88", "uAD9B">>, <<"uADA4", "uADB7">>,
                    <<"uADC0", "uADD3">>, <<"uADDC", "uADEF">>, <<"uADF8", "uAE0B">>, <<"uAE14", "uAE27">>,
                    <<"uAE30", "uAE43">>, <<"uAE4C", "uAE5F">>, <<"uAE68", "uAE7B">>, <<"uAE84", "uAE97">>,
                    <<"uAEA0", "uAEB3">>, <<"uAEBC", "uAECF">>, <<"uAED8", "uAEEB">>, <<"uAEF4", "uAF07">>,
                    <<"uAF10", "uAF23">>, <<"uAF2C", "uAF3F">>, <<"uAF48", "uAF5B">>, <<"uAF64", "uAF77">>,
                    <<"uAF80", "uAF93">>, <<"uAF9C", "uAFAF">>, <<"uAFB8", "uAFCB">>, <<"uAFD4", "uAFE7">>,
                    <<"uAFF0", "uB003">>, <<"uB00C", "uB01F">>, <<"uB028", "uB03B">>, <<"uB044", "uB057">>,
                    <<"uB060", "uB073">>, <<"uB07C", "uB08F">>, <<"uB098", "uB0AB">>, <<"uB0B4", "uB0C7">>,
                    <<"uB0D0", "uB0E3">>, <<"uB0EC", "uB0FF">>, <<"uB108", "uB11B">>, <<"uB124", "uB137">>,
                    <<"uB140", "uB153">>, <<"uB15C", "uB16F">>, <<"uB178", "uB18B">>, <<"uB194", "uB1A7">>,
                    <<"uB1B0", "uB1C3">>, <<"uB1CC", "uB1DF">>, <<"uB1E8", "uB1FB">>, <<"uB204", "uB217">>,
                    <<"uB220", "uB233">>, <<"uB23C", "uB24F">>, <<"uB258", "uB26B">>, <<"uB274", "uB287">>,
                    <<"uB290", "uB2A3">>, <<"uB2AC", "uB2BF">>, <<"uB2C8", "uB2DB">>, <<"uB2E4", "uB2F7">>,
                    <<"uB300", "uB313">>, <<"uB31C", "uB32F">>, <<"uB338", "uB34B">>, <<"uB354", "uB367">>,
                    <<"uB370", "uB383">>, <<"uB38C", "uB39F">>, <<"uB3A8", "uB3BB">>, <<"uB3C4", "uB3D7">>,
                    <<"uB3E0", "uB3F3">>, <<"uB3FC", "uB40F">>, <<"uB418", "uB42B">>, <<"uB434", "uB447">>,
                    <<"uB450", "uB463">>, <<"uB46C", "uB47F">>, <<"uB488", "uB49B">>, <<"uB4A4", "uB4B7">>,
                    <<"uB4C0", "uB4D3">>, <<"uB4DC", "uB4EF">>, <<"uB4F8", "uB50B">>, <<"uB514", "uB527">>,
                    <<"uB530", "uB543">>, <<"uB54C", "uB55F">>, <<"uB568", "uB57B">>, <<"uB584", "uB597">>,
                    <<"uB5A0", "uB5B3">>, <<"uB5BC", "uB5CF">>, <<"uB5D8", "uB5EB">>, <<"uB5F4", "uB607">>,
                    <<"uB610", "uB623">>, <<"uB62C", "uB63F">>, <<"uB648", "uB65B">>, <<"uB664", "uB677">>,
                    <<"uB680", "uB693">>, <<"uB69C", "uB6AF">>, <<"uB6B8", "uB6CB">>, <<"uB6D4", "uB6E7">>,
                    <<"uB6F0", "uB703">>, <<"uB70C", "uB71F">>, <<"uB728", "uB73B">>, <<"uB744", "uB757">>,
                    <<"uB760", "uB773">>, <<"uB77C", "uB78F">>, <<"uB798", "uB7AB">>, <<"uB7B4", "uB7C7">>,
                    <<"uB7D0", "uB7E3">>, <<"uB7EC", "uB7FF">>, <<"uB808", "uB81B">>, <<"uB824", "uB837">>,
                    <<"uB840", "uB853">>, <<"uB85C", "uB86F">>, <<"uB878", "uB88B">>, <<"uB894", "uB8A7">>,
                    <<"uB8B0", "uB8C3">>, <<"uB8CC", "uB8DF">>, <<"uB8E8", "uB8FB">>, <<"uB904", "uB917">>,
                    <<"uB920", "uB933">>, <<"uB93C", "uB94F">>, <<"uB958", "uB96B">>, <<"uB974", "uB987">>,
                    <<"uB990", "uB9A3">>, <<"uB9AC", "uB9BF">>, <<"uB9C8", "uB9DB">>, <<"uB9E4", "uB9F7">>,
                    <<"uBA00", "uBA13">>, <<"uBA1C", "uBA2F">>, <<"uBA38", "uBA4B">>, <<"uBA54", "uBA67">>,
                    <<"uBA70", "uBA83">>, <<"uBA8C", "uBA9F">>, <<"uBAA8", "uBABB">>, <<"uBAC4", "uBAD7">>,
                    <<"uBAE0", "uBAF3">>, <<"uBAFC", "uBB0F">>, <<"uBB18", "uBB2B">>, <<"uBB34", "uBB47">>,
                    <<"uBB50", "uBB63">>, <<"uBB6C", "uBB7F">>, <<"uBB88", "uBB9B">>, <<"uBBA4", "uBBB7">>,
                    <<"uBBC0", "uBBD3">>, <<"uBBDC", "uBBEF">>, <<"uBBF8", "uBC0B">>, <<"uBC14", "uBC27">>,
                    <<"uBC30", "uBC43">>, <<"uBC4C", "uBC5F">>, <<"uBC68", "uBC7B">>, <<"uBC84", "uBC97">>,
                    <<"uBCA0", "uBCB3">>, <<"uBCBC", "uBCCF">>, <<"uBCD8", "uBCEB">>, <<"uBCF4", "uBD07">>,
                    <<"uBD10", "uBD23">>, <<"uBD2C", "uBD3F">>, <<"uBD48", "uBD5B">>, <<"uBD64", "uBD77">>,
                    <<"uBD80", "uBD93">>, <<"uBD9C", "uBDAF">>, <<"uBDB8", "uBDCB">>, <<"uBDD4", "uBDE7">>,
                    <<"uBDF0", "uBE03">>, <<"uBE0C", "uBE1F">>, <<"uBE28", "uBE3B">>, <<"uBE44", "uBE57">>,
                    <<"uBE60", "uBE73">>, <<"uBE7C", "uBE8F">>, <<"uBE98", "uBEAB">>, <<"uBEB4", "uBEC7">>,
                    <<"uBED0", "uBEE3">>, <<"uBEEC", "uBEFF">>, <<"uBF08", "uBF1B">>, <<"uBF24", "uBF37">>,
                    <<"uBF40", "uBF53">>, <<"uBF5C", "uBF6F">>, <<"uBF78", "uBF8B">>, <<"uBF94", "uBFA7">>,
                    <<"uBFB0", "uBFC3">>, <<"uBFCC", "uBFDF">>, <<"uBFE8", "uBFFB">>, <<"uC004", "uC017">>,
                    <<"uC020", "uC033">>, <<"uC03C", "uC04F">>, <<"uC058", "uC06B">>, <<"uC074", "uC087">>,
                    <<"uC090", "uC0A3">>, <<"uC0AC", "uC0BF">>, <<"uC0C8", "uC0DB">>, <<"uC0E4", "uC0F7">>,
                    <<"uC100", "uC113">>, <<"uC11C", "uC12F">>, <<"uC138", "uC14B">>, <<"uC154", "uC167">>,
                    <<"uC170", "uC183">>, <<"uC18C", "uC19F">>, <<"uC1A8", "uC1BB">>, <<"uC1C4", "uC1D7">>,
                    <<"uC1E0", "uC1F3">>, <<"uC1FC", "uC20F">>, <<"uC218", "uC22B">>, <<"uC234", "uC247">>,
                    <<"uC250", "uC263">>, <<"uC26C", "uC27F">>, <<"uC288", "uC29B">>, <<"uC2A4", "uC2B7">>,
                    <<"uC2C0", "uC2D3">>, <<"uC2DC", "uC2EF">>, <<"uC2F8", "uC30B">>, <<"uC314", "uC327">>,
                    <<"uC330", "uC343">>, <<"uC34C", "uC35F">>, <<"uC368", "uC37B">>, <<"uC384", "uC397">>,
                    <<"uC3A0", "uC3B3">>, <<"uC3BC", "uC3CF">>, <<"uC3D8", "uC3EB">>, <<"uC3F4", "uC407">>,
                    <<"uC410", "uC423">>, <<"uC42C", "uC43F">>, <<"uC448", "uC45B">>, <<"uC464", "uC477">>,
                    <<"uC480", "uC493">>, <<"uC49C", "uC4AF">>, <<"uC4B8", "uC4CB">>, <<"uC4D4", "uC4E7">>,
                    <<"uC4F0", "uC503">>, <<"uC50C", "uC51F">>, <<"uC528", "uC53B">>, <<"uC544", "uC557">>,
                    <<"uC560", "uC573">>, <<"uC57C", "uC58F">>, <<"uC598", "uC5AB">>, <<"uC5B4", "uC5C7">>,
                    <<"uC5D0", "uC5E3">>, <<"uC5EC", "uC5FF">>, <<"uC608", "uC61B">>, <<"uC624", "uC637">>,
                    <<"uC640", "uC653">>, <<"uC65C", "uC66F">>, <<"uC678", "uC68B">>, <<"uC694", "uC6A7">>,
                    <<"uC6B0", "uC6C3">>, <<"uC6CC", "uC6DF">>, <<"uC6E8", "uC6FB">>, <<"uC704", "uC717">>,
                    <<"uC720", "uC733">>, <<"uC73C", "uC74F">>, <<"uC758", "uC76B">>, <<"uC774", "uC787">>,
                    <<"uC790", "uC7A3">>, <<"uC7AC", "uC7BF">>, <<"uC7C8", "uC7DB">>, <<"uC7E4", "uC7F7">>,
                    <<"uC800", "uC813">>, <<"uC81C", "uC82F">>, <<"uC838", "uC84B">>, <<"uC854", "uC867">>,
                    <<"uC870", "uC883">>, <<"uC88C", "uC89F">>, <<"uC8A8", "uC8BB">>, <<"uC8C4", "uC8D7">>,
                    <<"uC8E0", "uC8F3">>, <<"uC8FC", "uC90F">>, <<"uC918", "uC92B">>, <<"uC934", "uC947">>,
                    <<"uC950", "uC963">>, <<"uC96C", "uC97F">>, <<"uC988", "uC99B">>, <<"uC9A4", "uC9B7">>,
                    <<"uC9C0", "uC9D3">>, <<"uC9DC", "uC9EF">>, <<"uC9F8", "uCA0B">>, <<"uCA14", "uCA27">>,
                    <<"uCA30", "uCA43">>, <<"uCA4C", "uCA5F">>, <<"uCA68", "uCA7B">>, <<"uCA84", "uCA97">>,
                    <<"uCAA0", "uCAB3">>, <<"uCABC", "uCACF">>, <<"uCAD8", "uCAEB">>, <<"uCAF4", "uCB07">>,
                    <<"uCB10", "uCB23">>, <<"uCB2C", "uCB3F">>, <<"uCB48", "uCB5B">>, <<"uCB64", "uCB77">>,
                    <<"uCB80", "uCB93">>, <<"uCB9C", "uCBAF">>, <<"uCBB8", "uCBCB">>, <<"uCBD4", "uCBE7">>,
                    <<"uCBF0", "uCC03">>, <<"uCC0C", "uCC1F">>, <<"uCC28", "uCC3B">>, <<"uCC44", "uCC57">>,
                    <<"uCC60", "uCC73">>, <<"uCC7C", "uCC8F">>, <<"uCC98", "uCCAB">>, <<"uCCB4", "uCCC7">>,
                    <<"uCCD0", "uCCE3">>, <<"uCCEC", "uCCFF">>, <<"uCD08", "uCD1B">>, <<"uCD24", "uCD37">>,
                    <<"uCD40", "uCD53">>, <<"uCD5C", "uCD6F">>, <<"uCD78", "uCD8B">>, <<"uCD94", "uCDA7">>,
                    <<"uCDB0", "uCDC3">>, <<"uCDCC", "uCDDF">>, <<"uCDE8", "uCDFB">>, <<"uCE04", "uCE17">>,
                    <<"uCE20", "uCE33">>, <<"uCE3C", "uCE4F">>, <<"uCE58", "uCE6B">>, <<"uCE74", "uCE87">>,
                    <<"uCE90", "uCEA3">>, <<"uCEAC", "uCEBF">>, <<"uCEC8", "uCEDB">>, <<"uCEE4", "uCEF7">>,
                    <<"uCF00", "uCF13">>, <<"uCF1C", "uCF2F">>, <<"uCF38", "uCF4B">>, <<"uCF54", "uCF67">>,
                    <<"uCF70", "uCF83">>, <<"uCF8C", "uCF9F">>, <<"uCFA8", "uCFBB">>, <<"uCFC4", "uCFD7">>,
                    <<"uCFE0", "uCFF3">>, <<"uCFFC", "uD00F">>, <<"uD018", "uD02B">>, <<"uD034", "uD047">>,
                    <<"uD050", "uD063">>, <<"uD06C", "uD07F">>, <<"uD088", "uD09B">>, <<"uD0A4", "uD0B7">>,
                    <<"uD0C0", "uD0D3">>, <<"uD0DC", "uD0EF">>, <<"uD0F8", "uD10B">>, <<"uD114", "uD127">>,
                    <<"uD130", "uD143">>, <<"uD14C", "uD15F">>, <<"uD168", "uD17B">>, <<"uD184", "uD197">>,
                    <<"uD1A0", "uD1B3">>, <<"uD1BC", "uD1CF">>, <<"uD1D8", "uD1EB">>, <<"uD1F4", "uD207">>,
                    <<"uD210", "uD223">>, <<"uD22C", "uD23F">>, <<"uD248", "uD25B">>, <<"uD264", "uD277">>,
                    <<"uD280", "uD293">>, <<"uD29C", "uD2AF">>, <<"uD2B8", "uD2CB">>, <<"uD2D4", "uD2E7">>,
                    <<"uD2F0", "uD303">>, <<"uD30C", "uD31F">>, <<"uD328", "uD33B">>, <<"uD344", "uD357">>,
                    <<"uD360", "uD373">>, <<"uD37C", "uD38F">>, <<"uD398", "uD3AB">>, <<"uD3B4", "uD3C7">>,
                    <<"uD3D0", "uD3E3">>, <<"uD3EC", "uD3FF">>, <<"uD408", "uD41B">>, <<"uD424", "uD437">>,
                    <<"uD440", "uD453">>, <<"uD45C", "uD46F">>, <<"uD478", "uD48B">>, <<"uD494", "uD4A7">>,
                    <<"uD4B0", "uD4C3">>, <<"uD4CC", "uD4DF">>, <<"uD4E8", "uD4FB">>, <<"uD504", "uD517">>,
                    <<"uD520", "uD533">>, <<"uD53C", "uD54F">>, <<"uD558", "uD56B">>, <<"uD574", "uD587">>,
                    <<"uD590", "uD5A3">>, <<"uD5AC", "uD5BF">>, <<"uD5C8", "uD5DB">>, <<"uD5E4", "uD5F7">>,
                    <<"uD600", "uD613">>, <<"uD61C", "uD62F">>, <<"uD638", "uD64B">>, <<"uD654", "uD667">>,
                    <<"uD670", "uD683">>, <<"uD68C", "uD69F">>, <<"uD6A8", "uD6BB">>, <<"uD6C4", "uD6D7">>,
                    <<"uD6E0", "uD6F3">>, <<"uD6FC", "uD70F">>, <<"uD718", "uD72B">>, <<"uD734", "uD747">>,
                    <<"uD750", "uD763">>, <<"uD76C", "uD77F">>, <<"uD788", "uD79B">>},
         u11BB |-> {<<"uAC00", "uAC14">>, <<"uAC1C", "uAC30">>, <<"uAC38", "uAC4C">>, <<"uAC54", "uAC68">>,
                    <<"uAC70", "uAC84">>, <<"uAC8C", "uACA0">>, <<"uACA8", "uACBC">>, <<"uACC4", "uACD8">>,
                    <<"uACE0", "uACF4">>, <<"uACFC", "uAD10">>, <<"uAD18", "uAD2C">>, <<"uAD34", "uAD48">>,
                    <<"uAD50", "uAD64">>, <<"uAD6C", "uAD80">>, <<"uAD88", "uAD9C">>, <<"uADA4", "uADB8">>,
                    <<"uADC0", "uADD4">>, <<"uADDC", "uADF0">>, <<"uADF8", "uAE0C">>, <<"uAE14", "uAE28">>,
                    <<"uAE30", "uAE44">>, <<"uAE4C", "uAE60">>, <<"uAE68", "uAE7C">>, <<"uAE84", "uAE98">>,
                    <<"uAEA0", "uAEB4">>, <<"uAEBC", "uAED0">>, <<"uAED8", "uAEEC">>, <<"uAEF4", "uAF08">>,
                    <<"uAF10", "uAF24">>, <<"uAF2C", "uAF40">>, <<"uAF48", "uAF5C">>, <<"uAF64", "uAF78">>,
                    <<"uAF80", "uAF94">>, <<"uAF9C", "uAFB0">>, <<"uAFB8", "uAFCC">>, <<"uAFD4", "uAFE8">>,
                    <<"uAFF0", "uB004">>, <<"uB00C", "uB020">>, <<"uB028", "uB03C">>, <<"uB044", "uB058">>,
                    <<"uB060", "uB074">>, <<"uB07C", "uB090">>, <<"uB098", "uB0AC">>, <<"uB0B4", "uB0C8">>,
                    <<"uB0D0", "uB0E4">>, <<"uB0EC", "uB100">>, <<"uB108", "uB11C">>, <<"uB124", "uB138">>,
                    <<"uB140", "uB154">>, <<"uB15C", "uB170">>, <<"uB178", "uB18C">>, <<"uB194", "uB1A8">>,
                    <<"uB1B0", "uB1C4">>, <<"uB1CC", "uB1E0">>, <<"uB1E8", "uB1FC">>, <<"uB204", "uB218">>,
                    <<"uB220", "uB234">>, <<"uB23C", "uB250">>, <<"uB258", "uB26C">>, <<"uB274", "uB288">>,
                    <<"uB290", "uB2A4">>, <<"uB2AC", "uB2C0">>, <<"uB2C8", "uB2DC">>, <<"uB2E4", "uB2F8">>,
                    <<"uB300", "uB314">>, <<"uB31C", "uB330">>, <<"uB338", "uB34C">>, <<"uB354", "uB368">>,
                    <<"uB370", "uB384">>, <<"uB38C", "uB3A0">>, <<"uB3A8", "uB3BC">>, <<"uB3C4", "uB3D8">>,
                    <<"uB3E0", "uB3F4">>, <<"uB3FC", "uB410">>, <<"uB418", "uB42C">>, <<"uB434", "uB448">>,
                    <<"uB450", "uB464">>, <<"uB46C", "uB480">>, <<"uB488", "uB49C">>, <<"uB4A4", "uB4B8">>,
                    <<"uB4C0", "uB4D4">>, <<"uB4DC", "uB4F0">>, <<"uB4F8", "uB50C">>, <<"uB514", "uB528">>,
                    <<"uB530", "uB544">>, <<"uB54C", "uB560">>, <<"uB568", "uB57C">>, <<"uB584", "uB598">>,
                    <<"uB5A0", "uB5B4">>, <<"uB5BC", "uB5D0">>, <<"uB5D8", "uB5EC">>, <<"uB5F4", "uB608">>,
                    <<"uB610", "uB624">>, <<"uB62C", "uB640">>, <<"uB648", "uB65C">>, <<"uB664", "uB678">>,
                    <<"uB680", "uB694">>, <<"uB69C", "uB6B0">>, <<"uB6B8", "uB6CC">>, <<"uB6D4", "uB6E8">>,
                    <<"uB6F0", "uB704">>, <<"uB70C", "uB720">>, <<"uB728", "uB73C">>, <<"uB744", "uB758">>,
                    <<"uB760", "uB774">>, <<"uB77C", "uB790">>, <<"uB798", "uB7AC">>, <<"uB7B4", "uB7C8">>,
                    <<"uB7D0", "uB7E4">>, <<"uB7EC", "uB800">>, <<"uB808", "uB81C">>, <<"uB824", "uB838">>,
                    <<"uB840", "uB854">>, <<"uB85C", "uB870">>, <<"uB878", "uB88C">>, <<"uB894", "uB8A8">>,
                    <<"uB8B0", "uB8C4">>, <<"uB8CC", "uB8E0">>, <<"uB8E8", "uB8FC">>, <<"uB904", "uB918">>,
                    <<"uB920", "uB934">>, <<"uB93C", "uB950">>, <<"uB958", "uB96C">>, <<"uB974", "uB988">>,
                    <<"uB990", "uB9A4">>, <<"uB9AC", "uB9C0">>, <<"uB9C8", "uB9DC">>, <<"uB9E4", "uB9F8">>,
                    <<"uBA00", "uBA14">>, <<"uBA1C", "uBA30">>, <<"uBA38", "uBA4C">>, <<"uBA54", "uBA68">>,
                    <<"uBA70", "uBA84">>, <<"uBA8C", "uBAA0">>, <<"uBAA8", "uBABC">>, <<"uBAC4", "uBAD8">>,
                    <<"uBAE0", "uBAF4">>, <<"uBAFC", "uBB10">>, <<"uBB18", "uBB2C">>, <<"uBB34", "uBB48">>,
                    <<"uBB50", "uBB64">>, <<"uBB6C", "uBB80">>, <<"uBB88", "uBB9C">>, <<"uBBA4", "uBBB8">>,
                    <<"uBBC0", "uBBD4">>, <<"uBBDC", "uBBF0">>, <<"uBBF8", "uBC0C">>, <<"uBC14", "uBC28">>,
                    <<"uBC30", "uBC44">>, <<"uBC4C", "uBC60">>, <<"uBC68", "uBC7C">>, <<"uBC84", "uBC98">>,
                    <<"uBCA0", "uBCB4">>, <<"uBCBC", "uBCD0">>, <<"uBCD8", "uBCEC">>, <<"uBCF4", "uBD08">>,
                    <<"uBD10", "uBD24">>, <<"uBD2C", "uBD40">>, <<"uBD48", "uBD5C">>, <<"uBD64", "uBD78">>,
                    <<"uBD80", "uBD94">>, <<"uBD9C", "uBDB0">>, <<"uBDB8", "uBDCC">>, <<"uBDD4", "uBDE8">>,
                    <<"uBDF0", "uBE04">>, <<"uBE0C", "uBE20">>, <<"uBE28", "uBE3C">>, <<"uBE44", "uBE58">>,
                    <<"uBE60", "uBE74">>, <<"uBE7C", "uBE90">>, <<"uBE98", "uBEAC">>, <<"uBEB4", "uBEC8">>,
                    <<"uBED0", "uBEE4">>, <<"uBEEC", "uBF00">>, <<"uBF08", "uBF1C">>, <<"uBF24", "uBF38">>,
                    <<"uBF40", "uBF54">>, <<"uBF5C", "uBF70">>, <<"uBF78", "uBF8C">>, <<"uBF94", "uBFA8">>,
                    <<"uBFB0", "uBFC4">>, <<"uBFCC", "uBFE0">>, <<"uBFE8", "uBFFC">>, <<"uC004", "uC018">>,
                    <<"uC020", "uC034">>, <<"uC03C", "uC050">>, <<"uC058", "uC06C">>, <<"uC074", "uC088">>,
                    <<"uC090", "uC0A4">>, <<"uC0AC", "uC0C0">>, <<"uC0C8", "uC0DC">>, <<"uC0E4", "uC0F8">>,
                    <<"uC100", "uC114">>, <<"uC11C", "uC130">>, <<"uC138", "uC14C">>, <<"uC154", "uC168">>,
                    <<"uC170", "uC184">>, <<"uC18C", "uC1A0">>, <<"uC1A8", "uC1BC">>, <<"uC1C4", "uC1D8">>,
                    <<"uC1E0", "uC1F4">>, <<"uC1FC", "uC210">>, <<"uC218", "uC22C">>, <<"uC234", "uC248">>,
                    <<"uC250", "uC264">>, <<"uC26C", "uC280">>, <<"uC288", "uC29C">>, <<"uC2A4", "uC2B8">>,
                    <<"uC2C0", "uC2D4">>, <<"uC2DC", "uC2F0">>, <<"uC2F8", "uC30C">>, <<"uC314", "uC328">>,
                    <<"uC330", "uC344">>, <<"uC34C", "uC360">>, <<"uC368", "uC37C">>, <<"uC384", "uC398">>,
                    <<"uC3A0", "uC3B4">>, <<"uC3BC", "uC3D0">>, <<"uC3D8", "uC3EC">>, <<"uC3F4", "uC408">>,
                    <<"uC410", "uC424">>, <<"uC42C", "uC440">>, <<"uC448", "uC45C">>, <<"uC464", "uC478">>,
                    <<"uC480", "uC494">>, <<"uC49C", "uC4B0">>, <<"uC4B8", "uC4CC">>, <<"uC4D4", "uC4E8">>,
                    <<"uC4F0", "uC504">>, <<"uC50C", "uC520">>, <<"uC528", "uC53C">>, <<"uC544", "uC558">>,
                    <<"uC560", "uC574">>, <<"uC57C", "uC590">>, <<"uC598", "uC5AC">>, <<"uC5B4", "uC5C8">>,
                    <<"uC5D0", "uC5E4">>, <<"uC5EC", "uC600">>, <<"uC608", "uC61C">>, <<"uC624", "uC638">>,
                    <<"uC640", "uC654">>, <<"uC65C", "uC670">>, <<"uC678", "uC68C">>, <<"uC694", "uC6A8">>,
                    <<"uC6B0", "uC6C4">>, <<"uC6CC", "uC6E0">>, <<"uC6E8", "uC6FC">>, <<"uC704", "uC718">>,
                    <<"uC720", "uC734">>, <<"uC73C", "uC750">>, <<"uC758", "uC76C">>, <<"uC774", "uC788">>,
                    <<"uC790", "uC7A4">>, <<"uC7AC", "uC7C0">>, <<"uC7C8", "uC7DC">>, <<"uC7E4", "uC7F8">>,
                    <<"uC800", "uC814">>, <<"uC81C", "uC830">>, <<"uC838", "uC84C">>, <<"uC854", "uC868">>,
                    <<"uC870", "uC884">>, <<"uC88C", "uC8A0">>, <<"uC8A8", "uC8BC">>, <<"uC8C4", "uC8D8">>,
                    <<"uC8E0", "uC8F4">>, <<"uC8FC", "uC910">>, <<"uC918", "uC92C">>, <<"uC934", "uC948">>,
                    <<"uC950", "uC964">>, <<"uC96C", "uC980">>, <<"uC988", "uC99C">>, <<"uC9A4", "uC9B8">>,
                    <<"uC9C0", "uC9D4">>, <<"uC9DC", "uC9F0">>, <<"uC9F8", "uCA0C">>, <<"uCA14", "uCA28">>,
                    <<"uCA30", "uCA44">>, <<"uCA4C", "uCA60">>, <<"uCA68", "uCA7C">>, <<"uCA84", "uCA98">>,
                    <<"uCAA0", "uCAB4">>, <<"uCABC", "uCAD0">>, <<"uCAD8", "uCAEC">>, <<"uCAF4", "uCB08">>,
                    <<"uCB10", "uCB24">>, <<"uCB2C", "uCB40">>, <<"uCB48", "uCB5C">>, <<"uCB64", "uCB78">>,
                    <<"uCB80", "uCB94">>, <<"uCB9C", "uCBB0">>, <<"uCBB8", "uCBCC">>, <<"uCBD4", "uCBE8">>,
                    <<"uCBF0", "uCC04">>, <<"uCC0C", "uCC20">>, <<"uCC28", "uCC3C">>, <<"uCC44", "uCC58">>,
                    <<"uCC60", "uCC74">>, <<"uCC7C", "uCC90">>, <<"uCC98", "uCCAC">>, <<"uCCB4", "uCCC8">>,
                    <<"uCCD0", "uCCE4">>, <<"uCCEC", "uCD00">>, <<"uCD08", "uCD1C">>, <<"uCD24", "uCD38">>,
                    <<"uCD40", "uCD54">>, <<"uCD5C", "uCD70">>, <<"uCD78", "uCD8C">>, <<"uCD94", "uCDA8">>,
                    <<"uCDB0", "uCDC4">>, <<"uCDCC", "uCDE0">>, <<"uCDE8", "uCDFC">>, <<"uCE04", "uCE18">>,
                    <<"uCE20", "uCE34">>, <<"uCE3C", "uCE50">>, <<"uCE58", "uCE6C">>, <<"uCE74", "uCE88">>,
                    <<"uCE90", "uCEA4">>, <<"uCEAC", "uCEC0">>, <<"uCEC8", "uCEDC">>, <<"uCEE4", "uCEF8">>,
                    <<"uCF00", "uCF14">>, <<"uCF1C", "uCF30">>, <<"uCF38", "uCF4C">>, <<"uCF54", "uCF68">>,
                    <<"uCF70", "uCF84">>, <<"uCF8C", "uCFA0">>, <<"uCFA8", "uCFBC">>, <<"uCFC4", "uCFD8">>,
                    <<"uCFE0", "uCFF4">>, <<"uCFFC", "uD010">>, <<"uD018", "uD02C">>, <<"uD034", "uD048">>,
                    <<"uD050", "uD064">>, <<"uD06C", "uD080">>, <<"uD088", "uD09C">>, <<"uD0A4", "uD0B8">>,
                    <<"uD0C0", "uD0D4">>, <<"uD0DC", "uD0F0">>, <<"uD0F8", "uD10C">>, <<"uD114", "uD128">>,
                    <<"uD130", "uD144">>, <<"uD14C", "uD160">>, <<"uD168", "uD17C">>, <<"uD184", "uD198">>,
                    <<"uD1A0", "uD1B4">>, <<"uD1BC", "uD1D0">>, <<"uD1D8", "uD1EC">>, <<"uD1F4", "uD208">>,
                    <<"uD210", "uD224">>, <<"uD22C", "uD240">>, <<"uD248", "uD25C">>, <<"uD264", "uD278">>,
                    <<"uD280", "uD294">>, <<"uD29C", "uD2B0">>, <<"uD2B8", "uD2CC">>, <<"uD2D4", "uD2E8">>,
                    <<"uD2F0", "uD304">>, <<"uD30C", "uD320">>, <<"uD328", "uD33C">>, <<"uD344", "uD358">>,
                    <<"uD360", "uD374">>, <<"uD37C", "uD390">>, <<"uD398", "uD3AC">>, <<"uD3B4", "uD3C8">>,
                    <<"uD3D0", "uD3E4">>, <<"uD3EC", "uD400">>, <<"uD408", "uD41C">>, <<"uD424", "uD438">>,
                    <<"uD440", "uD454">>, <<"uD45C", "uD470">>, <<"uD478", "uD48C">>, <<"uD494", "uD4A8">>,
                    <<"uD4B0", "uD4C4">>, <<"uD4CC", "uD4E0">>, <<"uD4E8", "uD4FC">>, <<"uD504", "uD518">>,
                    <<"uD520", "uD534">>, <<"uD53C", "uD550">>, <<"uD558", "uD56C">>, <<"uD574", "uD588">>,
                    <<"uD590", "uD5A4">>, <<"uD5AC", "uD5C0">>, <<"uD5C8", "uD5DC">>, <<"uD5E4", "uD5F8">>,
                    <<"uD600", "uD614">>, <<"uD61C", "uD630">>, <<"uD638", "uD64C">>, <<"uD654", "uD668">>,
                    <<"uD670", "uD684">>, <<"uD68C", "uD6A0">>, <<"uD6A8", "uD6BC">>, <<"uD6C4", "uD6D8">>,
                    <<"uD6E0", "uD6F4">>, <<"uD6FC", "uD710">>, <<"uD718", "uD72C">>, <<"uD734", "uD748">>,
                    <<"uD750", "uD764">>, <<"uD76C", "uD780">>, <<"uD788", "uD79C">>},
         u11BC |-> {<<"uAC00", "uAC15">>, <<"uAC1C", "uAC31">>, <<"uAC38", "uAC4D">>, <<"uAC54", "uAC69">>,
                    <<"uAC70", "uAC85">>, <<"uAC8C", "uACA1">>, <<"uACA8", "uACBD">>, <<"uACC4", "uACD9">>,
                    <<"uACE0", "uACF5">>, <<"uACFC", "uAD11">>, <<"uAD18", "uAD2D">>, <<"uAD34", "uAD49">>,
                    <<"uAD50", "uAD65">>, <<"uAD6C", "uAD81">>, <<"uAD88", "uAD9D">>, <<"uADA4", "uADB9">>,
                    <<"uADC0", "uADD5">>, <<"uADDC", "uADF1">>, <<"uADF8", "uAE0D">>, <<"uAE14", "uAE29">>,
                    <<"uAE30", "uAE45">>, <<"uAE4C", "uAE61">>, <<"uAE68", "uAE7D">>, <<"uAE84", "uAE99">>,
                    <<"uAEA0", "uAEB5">>, <<"uAEBC", "uAED1">>, <<"uAED8", "uAEED">>, <<"uAEF4", "uAF09">>,
                    <<"uAF10", "uAF25">>, <<"uAF2C", "uAF41">>, <<"uAF48", "uAF5D">>, <<"uAF64", "uAF79">>,
                    <<"uAF80", "uAF95">>, <<"uAF9C", "uAFB1">>, <<"uAFB8", "uAFCD">>, <<"uAFD4", "uAFE9">>,
                    <<"uAFF0", "uB005">>, <<"uB00C", "uB021">>, <<"uB028", "uB03D">>, <<"uB044", "uB059">>,
                    <<"uB060", "uB075">>, <<"uB07C", "uB091">>, <<"uB098", "uB0AD">>, <<"uB0B4", "uB0C9">>,
                    <<"uB0D0", "uB0E5">>, <<"uB0EC", "uB101">>, <<"uB108", "uB11D">>, <<"uB124", "uB139">>,
                    <<"uB140", "uB155">>, <<"uB15C", "uB171">>, <<"uB178", "uB18D">>, <<"uB194", "uB1A9">>,
                    <<"uB1B0", "uB1C5">>, <<"uB1CC", "uB1E1">>, <<"uB1E8", "uB1FD">>, <<"uB204", "uB219">>,
                    <<"uB220", "uB235">>, <<"uB23C", "uB251">>, <<"uB258", "uB26D">>, <<"uB274", "uB289">>,
                    <<"uB290", "uB2A5">>, <<"uB2AC", "uB2C1">>, <<"uB2C8", "uB2DD">>, <<"uB2E4", "uB2F9">>,
                    <<"uB300", "uB315">>, <<"uB31C", "uB331">>, <<"uB338", "uB34D">>, <<"uB354", "uB369">>,
                    <<"uB370", "uB385">>, <<"uB38C", "uB3A1">>, <<"uB3A8", "uB3BD">>, <<"uB3C4", "uB3D9">>,
                    <<"uB3E0", "uB3F5">>, <<"uB3FC", "uB411">>, <<"uB418", "uB42D">>, <<"uB434", "uB449">>,
                    <<"uB450", "uB465">>, <<"uB46C", "uB481">>, <<"uB488", "uB49D">>, <<"uB4A4", "uB4B9">>,
                    <<"uB4C0", "uB4D5">>, <<"uB4DC", "uB4F1">>, <<"uB4F8", "uB50D">>, <<"uB514", "uB529">>,
                    <<"uB530", "uB545">>, <<"uB54C", "uB561">>, <<"uB568", "uB57D">>, <<"uB584", "uB599">>,
                    <<"uB5A0", "uB5B5">>, <<"uB5BC", "uB5D1">>, <<"uB5D8", "uB5ED">>, <<"uB5F4", "uB609">>,
                    <<"uB610", "uB625">>, <<"uB62C", "uB641">>, <<"uB648", "uB65D">>, <<"uB664", "uB679">>,
                    <<"uB680", "uB695">>, <<"uB69C", "uB6B1">>, <<"uB6B8", "uB6CD">>, <<"uB6D4", "uB6E9">>,
                    <<"uB6F0", "uB705">>, <<"uB70C", "uB721">>, <<"uB728", "uB73D">>, <<"uB744", "uB759">>,
                    <<"uB760", "uB775">>, <<"uB77C", "uB791">>, <<"uB798", "uB7AD">>, <<"uB7B4", "uB7C9">>,
                    <<"uB7D0", "uB7E5">>, <<"uB7EC", "uB801">>, <<"uB808", "uB81D">>, <<"uB824", "uB839">>,
                    <<"uB840", "uB855">>, <<"uB85C", "uB871">>, <<"uB878", "uB88D">>, <<"uB894", "uB8A9">>,
                    <<"uB8B0", "uB8C5">>, <<"uB8CC", "uB8E1">>, <<"uB8E8", "uB8FD">>, <<"uB904", "uB919">>,
                    <<"uB920", "uB935">>, <<"uB93C", "uB951">>, <<"uB958", "uB96D">>, <<"uB974", "uB989">>,
                    <<"uB990", "uB9A5">>, <<"uB9AC", "uB9C1">>, <<"uB9C8", "uB9DD">>, <<"uB9E4", "uB9F9">>,
                    <<"uBA00", "uBA15">>, <<"uBA1C", "uBA31">>, <<"uBA38", "uBA4D">>, <<"uBA54", "uBA69">>,
                    <<"uBA70", "uBA85">>, <<"uBA8C", "uBAA1">>, <<"uBAA8", "uBABD">>, <<"uBAC4", "uBAD9">>,
                    <<"uBAE0", "uBAF5">>, <<"uBAFC", "uBB11">>, <<"uBB18", "uBB2D">>, <<"uBB34", "uBB49">>,
                    <<"uBB50", "uBB65">>, <<"uBB6C", "uBB81">>, <<"uBB88", "uBB9D">>, <<"uBBA4", "uBBB9">>,
                    <<"uBBC0", "uBBD5">>, <<"uBBDC", "uBBF1">>, <<"uBBF8", "uBC0D">>, <<"uBC14", "uBC29">>,
                    <<"uBC30", "uBC45">>, <<"uBC4C", "uBC61">>, <<"uBC68", "uBC7D">>, <<"uBC84", "uBC99">>,
                    <<"uBCA0", "uBCB5">>, <<"uBCBC", "uBCD1">>, <<"uBCD8", "uBCED">>, <<"uBCF4", "uBD09">>,
                    <<"uBD10", "uBD25">>, <<"uBD2C", "uBD41">>, <<"uBD48", "uBD5D">>, <<"uBD64", "uBD79">>,
                    <<"uBD80", "uBD95">>, <<"uBD9C", "uBDB1">>, <<"uBDB8", "uBDCD">>, <<"uBDD4", "uBDE9">>,
                    <<"uBDF0", "uBE05">>, <<"uBE0C", "uBE21">>, <<"uBE28", "uBE3D">>, <<"uBE44", "uBE59">>,
                    <<"uBE60", "uBE75">>, <<"uBE7C", "uBE91">>, <<"uBE98", "uBEAD">>, <<"uBEB4", "uBEC9">>,
                    <<"uBED0", "uBEE5">>, <<"uBEEC", "uBF01">>, <<"uBF08", "uBF1D">>, <<"uBF24", "uBF39">>,
                    <<"uBF40", "uBF55">>, <<"uBF5C", "uBF71">>, <<"uBF78", "uBF8D">>, <<"uBF94", "uBFA9">>,
                    <<"uBFB0", "uBFC5">>, <<"uBFCC", "uBFE1">>, <<"uBFE8", "uBFFD">>, <<"uC004", "uC019">>,
                    <<"uC020", "uC035">>, <<"uC03C", "uC051">>, <<"uC058", "uC06D">>, <<"uC074", "uC089">>,
                    <<"uC090", "uC0A5">>, <<"uC0AC", "uC0C1">>, <<"uC0C8", "uC0DD">>, <<"uC0E4", "uC0F9">>,
                    <<"uC100", "uC115">>, <<"uC11C", "uC131">>, <<"uC138", "uC14D">>, <<"uC154", "uC169">>,
                    <<"uC170", "uC185">>, <<"uC18C", "uC1A1">>, <<"uC1A8", "uC1BD">>, <<"uC1C4", "uC1D9">>,
                    <<"uC1E0", "uC1F5">>, <<"uC1FC", "uC211">>, <<"uC218", "uC22D">>, <<"uC234", "uC249">>,
                    <<"uC250", "uC265">>, <<"uC26C", "uC281">>, <<"uC288", "uC29D">>, <<"uC2A4", "uC2B9">>,
                    <<"uC2C0", "uC2D5">>, <<"uC2DC", "uC2F1">>, <<"uC2F8", "uC30D">>, <<"uC314", "uC329">>,
                    <<"uC330", "uC345">>, <<"uC34C", "uC361">>, <<"uC368", "uC37D">>, <<"uC384", "uC399">>,
                    <<"uC3A0", "uC3B5">>, <<"uC3BC", "uC3D1">>, <<"uC3D8", "uC3ED">>, <<"uC3F4", "uC409">>,
                    <<"uC410", "uC425">>, <<"uC42C", "uC441">>, <<"uC448", "uC45D">>, <<"uC464", "uC479">>,
                    <<"uC480", "uC495">>, <<"uC49C", "uC4B1">>, <<"uC4B8", "uC4CD">>, <<"uC4D4", "uC4E9">>,
                    <<"uC4F0", "uC505">>, <<"uC50C", "uC521">>, <<"uC528", "uC53D">>, <<"uC544", "uC559">>,
                    <<"uC560", "uC575">>, <<"uC57C", "uC591">>, <<"uC598", "uC5AD">>, <<"uC5B4", "uC5C9">>,
                    <<"uC5D0", "uC5E5">>, <<"uC5EC", "uC601">>, <<"uC608", "uC61D">>, <<"uC624", "uC639">>,
                    <<"uC640", "uC655">>, <<"uC65C", "uC671">>, <<"uC678", "uC68D">>, <<"uC694", "uC6A9">>,
                    <<"uC6B0", "uC6C5">>, <<"uC6CC", "uC6E1">>, <<"uC6E8", "uC6FD">>, <<"uC704", "uC719">>,
                    <<"uC720", "uC735">>, <<"uC73C", "uC751">>, <<"uC758", "uC76D">>, <<"uC774", "uC789">>,
                    <<"uC790", "uC7A5">>, <<"uC7AC", "uC7C1">>, <<"uC7C8", "uC7DD">>, <<"uC7E4", "uC7F9">>,
                    <<"uC800", "uC815">>, <<"uC81C", "uC831">>, <<"uC838", "uC84D">>, <<"uC854", "uC869">>,
                    <<"uC870", "uC885">>, <<"uC88C", "uC8A1">>, <<"uC8A8", "uC8BD">>, <<"uC8C4", "uC8D9">>,
                    <<"uC8E0", "uC8F5">>, <<"uC8FC", "uC911">>, <<"uC918", "uC92D">>, <<"uC934", "uC949">>,
                    <<"uC950", "uC965">>, <<"uC96C", "uC981">>, <<"uC988", "uC99D">>, <<"uC9A4", "uC9B9">>,
                    <<"uC9C0", "uC9D5">>, <<"uC9DC", "uC9F1">>, <<"uC9F8", "uCA0D">>, <<"uCA14", "uCA29">>,
                    <<"uCA30", "uCA45">>, <<"uCA4C", "uCA61">>, <<"uCA68", "uCA7D">>, <<"uCA84", "uCA99">>,
                    <<"uCAA0", "uCAB5">>, <<"uCABC", "uCAD1">>, <<"uCAD8", "uCAED">>, <<"uCAF4", "uCB09">>,
                    <<"uCB10", "uCB25">>, <<"uCB2C", "uCB41">>, <<"uCB48", "uCB5D">>, <<"uCB64", "uCB79">>,
                    <<"uCB80", "uCB95">>, <<"uCB9C", "uCBB1">>, <<"uCBB8", "uCBCD">>, <<"uCBD4", "uCBE9">>,
                    <<"uCBF0", "uCC05">>, <<"uCC0C", "uCC21">>, <<"uCC28", "uCC3D">>, <<"uCC44", "uCC59">>,
                    <<"uCC60", "uCC75">>, <<"uCC7C", "uCC91">>, <<"uCC98", "uCCAD">>, <<"uCCB4", "uCCC9">>,
                    <<"uCCD0", "uCCE5">>, <<"uCCEC", "uCD01">>, <<"uCD08", "uCD1D">>, <<"uCD24", "uCD39">>,
                    <<"uCD40", "uCD55">>, <<"uCD5C", "uCD71">>, <<"uCD78", "uCD8D">>, <<"uCD94", "uCDA9">>,
                    <<"uCDB0", "uCDC5">>, <<"uCDCC", "uCDE1">>, <<"uCDE8", "uCDFD">>, <<"uCE04", "uCE19">>,
                    <<"uCE20", "uCE35">>, <<"uCE3C", "uCE51">>, <<"uCE58", "uCE6D">>, <<"uCE74", "uCE89">>,
                    <<"uCE90", "uCEA5">>, <<"uCEAC", "uCEC1">>, <<"uCEC8", "uCEDD">>, <<"uCEE4", "uCEF9">>,
                    <<"uCF00", "uCF15">>, <<"uCF1C", "uCF31">>, <<"uCF38", "uCF4D">>, <<"uCF54", "uCF69">>,
                    <<"uCF70", "uCF85">>, <<"uCF8C", "uCFA1">>, <<"uCFA8", "uCFBD">>, <<"uCFC4", "uCFD9">>,
                    <<"uCFE0", "uCFF5">>, <<"uCFFC", "uD011">>, <<"uD018", "uD02D">>, <<"uD034", "uD049">>,
                    <<"uD050", "uD065">>, <<"uD06C", "uD081">>, <<"uD088", "uD09D">>, <<"uD0A4", "uD0B9">>,
                    <<"uD0C0", "uD0D5">>, <<"uD0DC", "uD0F1">>, <<"uD0F8", "uD10D">>, <<"uD114", "uD129">>,
                    <<"uD130", "uD145">>, <<"uD14C", "uD161">>, <<"uD168", "uD17D">>, <<"uD184", "uD199">>,
                    <<"uD1A0", "uD1B5">>, <<"uD1BC", "uD1D1">>, <<"uD1D8", "uD1ED">>, <<"uD1F4", "uD209">>,
                    <<"uD210", "uD225">>, <<"uD22C", "uD241">>, <<"uD248", "uD25D">>, <<"uD264", "uD279">>,
                    <<"uD280", "uD295">>, <<"uD29C", "uD2B1">>, <<"uD2B8", "uD2CD">>, <<"uD2D4", "uD2E9">>,
                    <<"uD2F0", "uD305">>, <<"uD30C", "uD321">>, <<"uD328", "uD33D">>, <<"uD344", "uD359">>,
                    <<"uD360", "uD375">>, <<"uD37C", "uD391">>, <<"uD398", "uD3AD">>, <<"uD3B4", "uD3C9">>,
                    <<"uD3D0", "uD3E5">>, <<"uD3EC", "uD401">>, <<"uD408", "uD41D">>, <<"uD424", "uD439">>,
                    <<"uD440", "uD455">>, <<"uD45C", "uD471">>, <<"uD478", "uD48D">>, <<"uD494", "uD4A9">>,
                    <<"uD4B0", "uD4C5">>, <<"uD4CC", "uD4E1">>, <<"uD4E8", "uD4FD">>, <<"uD504", "uD519">>,
                    <<"uD520", "uD535">>, <<"uD53C", "uD551">>, <<"uD558", "uD56D">>, <<"uD574", "uD589">>,
                    <<"uD590", "uD5A5">>, <<"uD5AC", "uD5C1">>, <<"uD5C8", "uD5DD">>, <<"uD5E4", "uD5F9">>,
                    <<"uD600", "uD615">>, <<"uD61C", "uD631">>, <<"uD638", "uD64D">>, <<"uD654", "uD669">>,
                    <<"uD670", "uD685">>, <<"uD68C", "uD6A1">>, <<"uD6A8", "uD6BD">>, <<"uD6C4", "uD6D9">>,
                    <<"uD6E0", "uD6F5">>, <<"uD6FC", "uD711">>, <<"uD718", "uD72D">>, <<"uD734", "uD749">>,
                    <<"uD750", "uD765">>, <<"uD76C", "uD781">>, <<"uD788", "uD79D">>},
         u11BD |-> {<<"uAC00", "uAC16">>, <<"uAC1C", "uAC32">>, <<"uAC38", "uAC4E">>, <<"uAC54", "uAC6A">>,
                    <<"uAC70", "uAC86">>, <<"uAC8C", "uACA2">>, <<"uACA8", "uACBE">>, <<"uACC4", "uACDA">>,
                    <<"uACE0", "uACF6">>, <<"uACFC", "uAD12">>, <<"uAD18", "uAD2E">>, <<"uAD34", "uAD4A">>,
                    <<"uAD50", "uAD66">>, <<"uAD6C", "uAD82">>, <<"uAD88", "uAD9E">>, <<"uADA4", "uADBA">>,
                    <<"uADC0", "uADD6">>, <<"uADDC", "uADF2">>, <<"uADF8", "uAE0E">>, <<"uAE14", "uAE2A">>,
                    <<"uAE30", "uAE46">>, <<"uAE4C", "uAE62">>, <<"uAE68", "uAE7E">>, <<"uAE84", "uAE9A">>,
                    <<"uAEA0", "uAEB6">>, <<"uAEBC", "uAED2">>, <<"uAED8", "uAEEE">>, <<"uAEF4", "uAF0A">>,
                    <<"uAF10", "uAF26">>, <<"uAF2C", "uAF42">>, <<"uAF48", "uAF5E">>, <<"uAF64", "uAF7A">>,
                    <<"uAF80", "uAF96">>, <<"uAF9C", "uAFB2">>, <<"uAFB8", "uAFCE">>, <<"uAFD4", "uAFEA">>,
                    <<"uAFF0", "uB006">>, <<"uB00C", "uB022">>, <<"uB028", "uB03E">>, <<"uB044", "uB05A">>,
                    <<"uB060", "uB076">>, <<"uB07C", "uB092">>, <<"uB098", "uB0AE">>, <<"uB0B4", "uB0CA">>,
                    <<"uB0D0", "uB0E6">>, <<"uB0EC", "uB102">>, <<"uB108", "uB11E">>, <<"uB124", "uB13A">>,
                    <<"uB140", "uB156">>, <<"uB15C", "uB172">>, <<"uB178", "uB18E">>, <<"uB194", "uB1AA">>,
                    <<"uB1B0", "uB1C6">>, <<"uB1CC", "uB1E2">>, <<"uB1E8", "uB1FE">>, <<"uB204", "uB21A">>,
                    <<"uB220", "uB236">>, <<"uB23C", "uB252">>, <<"uB258", "uB26E">>, <<"uB274", "uB28A">>,
                    <<"uB290", "uB2A6">>, <<"uB2AC", "uB2C2">>, <<"uB2C8", "uB2DE">>, <<"uB2E4", "uB2FA">>,
                    <<"uB300", "uB316">>, <<"uB31C", "uB332">>, <<"uB338", "uB34E">>, <<"uB354", "uB36A">>,
                    <<"uB370", "uB386">>, <<"uB38C", "uB3A2">>, <<"uB3A8", "uB3BE">>, <<"uB3C4", "uB3DA">>,
                    <<"uB3E0", "uB3F6">>, <<"uB3FC", "uB412">>, <<"uB418", "uB42E">>, <<"uB434", "uB44A">>,
                    <<"uB450", "uB466">>, <<"uB46C", "uB482">>, <<"uB488", "uB49E">>, <<"uB4A4", "uB4BA">>,
                    <<"uB4C0", "uB4D6">>, <<"uB4DC", "uB4F2">>, <<"uB4F8", "uB50E">>, <<"uB514", "uB52A">>,
                    <<"uB530", "uB546">>, <<"uB54C", "uB562">>, <<"uB568", "uB57E">>, <<"uB584", "uB59A">>,
                    <<"uB5A0", "uB5B6">>, <<"uB5BC", "uB5D2">>, <<"uB5D8", "uB5EE">>, <<"uB5F4", "uB60A">>,
                    <<"uB610", "uB626">>, <<"uB62C", "uB642">>, <<"uB648", "uB65E">>, <<"uB664", "uB67A">>,
                    <<"uB680", "uB696">>, <<"uB69C", "uB6B2">>, <<"uB6B8", "uB6CE">>, <<"uB6D4", "uB6EA">>,
                    <<"uB6F0", "uB706">>, <<"uB70C", "uB722">>, <<"uB728", "uB73E">>, <<"uB744", "uB75A">>,
                    <<"uB760", "uB776">>, <<"uB77C", "uB792">>, <<"uB798", "uB7AE">>, <<"uB7B4", "uB7CA">>,
                    <<"uB7D0", "uB7E6">>, <<"uB7EC", "uB802">>, <<"uB808", "uB81E">>, <<"uB824", "uB83A">>,
                    <<"uB840", "uB856">>, <<"uB85C", "uB872">>, <<"uB878", "uB88E">>, <<"uB894", "uB8AA">>,
                    <<"uB8B0", "uB8C6">>, <<"uB8CC", "uB8E2">>, <<"uB8E8", "uB8FE">>, <<"uB904", "uB91A">>,
                    <<"uB920", "uB936">>, <<"uB93C", "uB952">>, <<"uB958", "uB96E">>, <<"uB974", "uB98A">>,
                    <<"uB990", "uB9A6">>, <<"uB9AC", "uB9C2">>, <<"uB9C8", "uB9DE">>, <<"uB9E4", "uB9FA">>,
                    <<"uBA00", "uBA16">>, <<"uBA1C", "uBA32">>, <<"uBA38", "uBA4E">>, <<"uBA54", "uBA6A">>,
                    <<"uBA70", "uBA86">>, <<"uBA8C", "uBAA2">>, <<"uBAA8", "uBABE">>, <<"uBAC4", "uBADA">>,
                    <<"uBAE0", "uBAF6">>, <<"uBAFC", "uBB12">>, <<"uBB18", "uBB2E">>, <<"uBB34", "uBB4A">>,
                    <<"uBB50", "uBB66">>, <<"uBB6C", "uBB82">>, <<"uBB88", "uBB9E">>, <<"uBBA4", "uBBBA">>,
                    <<"uBBC0", "uBBD6">>, <<"uBBDC", "uBBF2">>, <<"uBBF8", "uBC0E">>, <<"uBC14", "uBC2A">>,
                    <<"uBC30", "uBC46">>, <<"uBC4C", "uBC62">>, <<"uBC68", "uBC7E">>, <<"uBC84", "uBC9A">>,
                    <<"uBCA0", "uBCB6">>, <<"uBCBC", "uBCD2">>, <<"uBCD8", "uBCEE">>, <<"uBCF4", "uBD0A">>,
                    <<"uBD10", "uBD26">>, <<"uBD2C", "uBD42">>, <<"uBD48", "uBD5E">>, <<"uBD64", "uBD7A">>,
                    <<"uBD80", "uBD96">>, <<"uBD9C", "uBDB2">>, <<"uBDB8", "uBDCE">>, <<"uBDD4", "uBDEA">>,
                    <<"uBDF0", "uBE06">>, <<"uBE0C", "uBE22">>, <<"uBE28", "uBE3E">>, <<"uBE44", "uBE5A">>,
                    <<"uBE60", "uBE76">>, <<"uBE7C", "uBE92">>, <<"uBE98", "uBEAE">>, <<"uBEB4", "uBECA">>,
                    <<"uBED0", "uBEE6">>, <<"uBEEC", "uBF02">>, <<"uBF08", "uBF1E">>, <<"uBF24", "uBF3A">>,
                    <<"uBF40", "uBF56">>, <<"uBF5C", "uBF72">>, <<"uBF78", "uBF8E">>, <<"uBF94", "uBFAA">>,
                    <<"uBFB0", "uBFC6">>, <<"uBFCC", "uBFE2">>, <<"uBFE8", "uBFFE">>, <<"uC004", "uC01A">>,
                    <<"uC020", "uC036">>, <<"uC03C", "uC052">>, <<"uC058", "uC06E">>, <<"uC074", "uC08A">>,
                    <<"uC090", "uC0A6">>, <<"uC0AC", "uC0C2">>, <<"uC0C8", "uC0DE">>, <<"uC0E4", "uC0FA">>,
                    <<"uC100", "uC116">>, <<"uC11C", "uC132">>, <<"uC138", "uC14E">>, <<"uC154", "uC16A">>,
                    <<"uC170", "uC186">>, <<"uC18C", "uC1A2">>, <<"uC1A8", "uC1BE">>, <<"uC1C4", "uC1DA">>,
                    <<"uC1E0", "uC1F6">>, <<"uC1FC", "uC212">>, <<"uC218", "uC22E">>, <<"uC234", "uC24A">>,
                    <<"uC250", "uC266">>, <<"uC26C", "uC282">>, <<"uC288", "uC29E">>, <<"uC2A4", "uC2BA">>,
                    <<"uC2C0", "uC2D6">>, <<"uC2DC", "uC2F2">>, <<"uC2F8", "uC30E">>, <<"uC314", "uC32A">>,
                    <<"uC330", "uC346">>, <<"uC34C", "uC362">>, <<"uC368", "uC37E">>, <<"uC384", "uC39A">>,
                    <<"uC3A0", "uC3B6">>, <<"uC3BC", "uC3D2">>, <<"uC3D8", "uC3EE">>, <<"uC3F4", "uC40A">>,
                    <<"uC410", "uC426">>, <<"uC42C", "uC442">>, <<"uC448", "uC45E">>, <<"uC464", "uC47A">>,
                    <<"uC480", "uC496">>, <<"uC49C", "uC4B2">>, <<"uC4B8", "uC4CE">>, <<"uC4D4", "uC4EA">>,
                    <<"uC4F0", "uC506">>, <<"uC50C", "uC522">>, <<"uC528", "uC53E">>, <<"uC544", "uC55A">>,
                    <<"uC560", "uC576">>, <<"uC57C", "uC592">>, <<"uC598", "uC5AE">>, <<"uC5B4", "uC5CA">>,
                    <<"uC5D0", "uC5E6">>, <<"uC5EC", "uC602">>, <<"uC608", "uC61E">>, <<"uC624", "uC63A">>,
                    <<"uC640", "uC656">>, <<"uC65C", "uC672">>, <<"uC678", "uC68E">>, <<"uC694", "uC6AA">>,
                    <<"uC6B0", "uC6C6">>, <<"uC6CC", "uC6E2">>, <<"uC6E8", "uC6FE">>, <<"uC704", "uC71A">>,
                    <<"uC720", "uC736">>, <<"uC73C", "uC752">>, <<"uC758", "uC76E">>, <<"uC774", "uC78A">>,
                    <<"uC790", "uC7A6">>, <<"uC7AC", "uC7C2">>, <<"uC7C8", "uC7DE">>, <<"uC7E4", "uC7FA">>,
                    <<"uC800", "uC816">>, <<"uC81C", "uC832">>, <<"uC838", "uC84E">>, <<"uC854", "uC86A">>,
                    <<"uC870", "uC886">>, <<"uC88C", "uC8A2">>, <<"uC8A8", "uC8BE">>, <<"uC8C4", "uC8DA">>,
                    <<"uC8E0", "uC8F6">>, <<"uC8FC", "uC912">>, <<"uC918", "uC92E">>, <<"uC934", "uC94A">>,
                    <<"uC950", "uC966">>, <<"uC96C", "uC982">>, <<"uC988", "uC99E">>, <<"uC9A4", "uC9BA">>,
                    <<"uC9C0", "uC9D6">>, <<"uC9DC", "uC9F2">>, <<"uC9F8", "uCA0E">>, <<"uCA14", "uCA2A">>,
                    <<"uCA30", "uCA46">>, <<"uCA4C", "uCA62">>, <<"uCA68", "uCA7E">>, <<"uCA84", "uCA9A">>,
                    <<"uCAA0", "uCAB6">>, <<"uCABC", "uCAD2">>, <<"uCAD8", "uCAEE">>, <<"uCAF4", "uCB0A">>,
                    <<"uCB10", "uCB26">>, <<"uCB2C", "uCB42">>, <<"uCB48", "uCB5E">>, <<"uCB64", "uCB7A">>,
                    <<"uCB80", "uCB96">>, <<"uCB9C", "uCBB2">>, <<"uCBB8", "uCBCE">>, <<"uCBD4", "uCBEA">>,
                    <<"uCBF0", "uCC06">>, <<"uCC0C", "uCC22">>, <<"uCC28", "uCC3E">>, <<"uCC44", "uCC5A">>,
                    <<"uCC60", "uCC76">>, <<"uCC7C", "uCC92">>, <<"uCC98", "uCCAE">>, <<"uCCB4", "uCCCA">>,
                    <<"uCCD0", "uCCE6">>, <<"uCCEC", "uCD02">>, <<"uCD08", "uCD1E">>, <<"uCD24", "uCD3A">>,
                    <<"uCD40", "uCD56">>, <<"uCD5C", "uCD72">>, <<"uCD78", "uCD8E">>, <<"uCD94", "uCDAA">>,
                    <<"uCDB0", "uCDC6">>, <<"uCDCC", "uCDE2">>, <<"uCDE8", "uCDFE">>, <<"uCE04", "uCE1A">>,
                    <<"uCE20", "uCE36">>, <<"uCE3C", "uCE52">>, <<"uCE58", "uCE6E">>, <<"uCE74", "uCE8A">>,
                    <<"uCE90", "uCEA6">>, <<"uCEAC", "uCEC2">>, <<"uCEC8", "uCEDE">>, <<"uCEE4", "uCEFA">>,
                    <<"uCF00", "uCF16">>, <<"uCF1C", "uCF32">>, <<"uCF38", "uCF4E">>, <<"uCF54", "uCF6A">>,
                    <<"uCF70", "uCF86">>, <<"uCF8C", "uCFA2">>, <<"uCFA8", "uCFBE">>, <<"uCFC4", "uCFDA">>,
                    <<"uCFE0", "uCFF6">>, <<"uCFFC", "uD012">>, <<"uD018", "uD02E">>, <<"uD034", "uD04A">>,
                    <<"uD050", "uD066">>, <<"uD06C", "uD082">>, <<"uD088", "uD09E">>, <<"uD0A4", "uD0BA">>,
                    <<"uD0C0", "uD0D6">>, <<"uD0DC", "uD0F2">>, <<"uD0F8", "uD10E">>, <<"uD114", "uD12A">>,
                    <<"uD130", "uD146">>, <<"uD14C", "uD162">>, <<"uD168", "uD17E">>, <<"uD184", "uD19A">>,
                    <<"uD1A0", "uD1B6">>, <<"uD1BC", "uD1D2">>, <<"uD1D8", "uD1EE">>, <<"uD1F4", "uD20A">>,
                    <<"uD210", "uD226">>, <<"uD22C", "uD242">>, <<"uD248", "uD25E">>, <<"uD264", "uD27A">>,
                    <<"uD280", "uD296">>, <<"uD29C", "uD2B2">>, <<"uD2B8", "uD2CE">>, <<"uD2D4", "uD2EA">>,
                    <<"uD2F0", "uD306">>, <<"uD30C", "uD322">>, <<"uD328", "uD33E">>, <<"uD344", "uD35A">>,
                    <<"uD360", "uD376">>, <<"uD37C", "uD392">>, <<"uD398", "uD3AE">>, <<"uD3B4", "uD3CA">>,
                    <<"uD3D0", "uD3E6">>, <<"uD3EC", "uD402">>, <<"uD408", "uD41E">>, <<"uD424", "uD43A">>,
                    <<"uD440", "uD456">>, <<"uD45C", "uD472">>, <<"uD478", "uD48E">>, <<"uD494", "uD4AA">>,
                    <<"uD4B0", "uD4C6">>, <<"uD4CC", "uD4E2">>, <<"uD4E8", "uD4FE">>, <<"uD504", "uD51A">>,
                    <<"uD520", "uD536">>, <<"uD53C", "uD552">>, <<"uD558", "uD56E">>, <<"uD574", "uD58A">>,
                    <<"uD590", "uD5A6">>, <<"uD5AC", "uD5C2">>, <<"uD5C8", "uD5DE">>, <<"uD5E4", "uD5FA">>,
                    <<"uD600", "uD616">>, <<"uD61C", "uD632">>, <<"uD638", "uD64E">>, <<"uD654", "uD66A">>,
                    <<"uD670", "uD686">>, <<"uD68C", "uD6A2">>, <<"uD6A8", "uD6BE">>, <<"uD6C4", "uD6DA">>,
                    <<"uD6E0", "uD6F6">>, <<"uD6FC", "uD712">>, <<"uD718", "uD72E">>, <<"uD734", "uD74A">>,
                    <<"uD750", "uD766">>, <<"uD76C", "uD782">>, <<"uD788", "uD79E">>},
         u11BE |-> {<<"uAC00", "uAC17">>, <<"uAC1C", "uAC33">>, <<"uAC38", "uAC4F">>, <<"uAC54", "uAC6B">>,
                    <<"uAC70", "uAC87">>, <<"uAC8C", "uACA3">>, <<"uACA8", "uACBF">>, <<"uACC4", "uACDB">>,
                    <<"uACE0", "uACF7">>, <<"uACFC", "uAD13">>, <<"uAD18", "uAD2F">>, <<"uAD34", "uAD4B">>,
                    <<"uAD50", "uAD67">>, <<"uAD6C", "uAD83">>, <<"uAD88", "uAD9F">>, <<"uADA4", "uADBB">>,
                    <<"uADC0", "uADD7">>, <<"uADDC", "uADF3">>, <<"uADF8", "uAE0F">>, <<"uAE14", "uAE2B">>,
                    <<"uAE30", "uAE47">>, <<"uAE4C", "uAE63">>, <<"uAE68", "uAE7F">>, <<"uAE84", "uAE9B">>,
                    <<"uAEA0", "uAEB7">>, <<"uAEBC", "uAED3">>, <<"uAED8", "uAEEF">>, <<"uAEF4", "uAF0B">>,
                    <<"uAF10", "uAF27">>, <<"uAF2C", "uAF43">>, <<"uAF48", "uAF5F">>, <<"uAF64", "uAF7B">>,
                    <<"uAF80", "uAF97">>, <<"uAF9C", "uAFB3">>, <<"uAFB8", "uAFCF">>, <<"uAFD4", "uAFEB">>,
                    <<"uAFF0", "uB007">>, <<"uB00C", "uB023">>, <<"uB028", "uB03F">>, <<"uB044", "uB05B">>,
                    <<"uB060", "uB077">>, <<"uB07C", "uB093">>, <<"uB098", "uB0AF">>, <<"uB0B4", "uB0CB">>,
                    <<"uB0D0", "uB0E7">>, <<"uB0EC", "uB103">>, <<"uB108", "uB11F">>, <<"uB124", "uB13B">>,
                    <<"uB140", "uB157">>, <<"uB15C", "uB173">>, <<"uB178", "uB18F">>, <<"uB194", "uB1AB">>,
                    <<"uB1B0", "uB1C7">>, <<"uB1CC", "uB1E3">>, <<"uB1E8", "uB1FF">>, <<"uB204", "uB21B">>,
                    <<"uB220", "uB237">>, <<"uB23C", "uB253">>, <<"uB258", "uB26F">>, <<"uB274", "uB28B">>,
                    <<"uB290", "uB2A7">>, <<"uB2AC", "uB2C3">>, <<"uB2C8", "uB2DF">>, <<"uB2E4", "uB2FB">>,
                    <<"uB300", "uB317">>, <<"uB31C", "uB333">>, <<"uB338", "uB34F">>, <<"uB354", "uB36B">>,
                    <<"uB370", "uB387">>, <<"uB38C", "uB3A3">>, <<"uB3A8", "uB3BF">>, <<"uB3C4", "uB3DB">>,
                    <<"uB3E0", "uB3F7">>, <<"uB3FC", "uB413">>, <<"uB418", "uB42F">>, <<"uB434", "uB44B">>,
                    <<"uB450", "uB467">>, <<"uB46C", "uB483">>, <<"uB488", "uB49F">>, <<"uB4A4", "uB4BB">>,
                    <<"uB4C0", "uB4D7">>, <<"uB4DC", "uB4F3">>, <<"uB4F8", "uB50F">>, <<"uB514", "uB52B">>,
                    <<"uB530", "uB547">>, <<"uB54C", "uB563">>, <<"uB568", "uB57F">>, <<"uB584", "uB59B">>,
                    <<"uB5A0", "uB5B7">>, <<"uB5BC", "uB5D3">>, <<"uB5D8", "uB5EF">>, <<"uB5F4", "uB60B">>,
                    <<"uB610", "uB627">>, <<"uB62C", "uB643">>, <<"uB648", "uB65F">>, <<"uB664", "uB67B">>,
                    <<"uB680", "uB697">>, <<"uB69C", "uB6B3">>, <<"uB6B8", "uB6CF">>, <<"uB6D4", "uB6EB">>,
                    <<"uB6F0", "uB707">>, <<"uB70C", "uB723">>, <<"uB728", "uB73F">>, <<"uB744", "uB75B">>,
                    <<"uB760", "uB777">>, <<"uB77C", "uB793">>, <<"uB798", "uB7AF">>, <<"uB7B4", "uB7CB">>,
                    <<"uB7D0", "uB7E7">>, <<"uB7EC", "uB803">>, <<"uB808", "uB81F">>, <<"uB824", "uB83B">>,
                    <<"uB840", "uB857">>, <<"uB85C", "uB873">>, <<"uB878", "uB88F">>, <<"uB894", "uB8AB">>,
                    <<"uB8B0", "uB8C7">>, <<"uB8CC", "uB8E3">>, <<"uB8E8", "uB8FF">>, <<"uB904", "uB91B">>,
                    <<"uB920", "uB937">>, <<"uB93C", "uB953">>, <<"uB958", "uB96F">>, <<"uB974", "uB98B">>,
                    <<"uB990", "uB9A7">>, <<"uB9AC", "uB9C3">>, <<"uB9C8", "uB9DF">>, <<"uB9E4", "uB9FB">>,
                    <<"uBA00", "uBA17">>, <<"uBA1C", "uBA33">>, <<"uBA38", "uBA4F">>, <<"uBA54", "uBA6B">>,
                    <<"uBA70", "uBA87">>, <<"uBA8C", "uBAA3">>, <<"uBAA8", "uBABF">>, <<"uBAC4", "uBADB">>,
                    <<"uBAE0", "uBAF7">>, <<"uBAFC", "uBB13">>, <<"uBB18", "uBB2F">>, <<"uBB34", "uBB4B">>,
                    <<"uBB50", "uBB67">>, <<"uBB6C", "uBB83">>, <<"uBB88", "uBB9F">>, <<"uBBA4", "uBBBB">>,
                    <<"uBBC0", "uBBD7">>, <<"uBBDC", "uBBF3">>, <<"uBBF8", "uBC0F">>, <<"uBC14", "uBC2B">>,
                    <<"uBC30", "uBC47">>, <<"uBC4C", "uBC63">>, <<"uBC68", "uBC7F">>, <<"uBC84", "uBC9B">>,
                    <<"uBCA0", "uBCB7">>, <<"uBCBC", "uBCD3">>, <<"uBCD8", "uBCEF">>, <<"uBCF4", "uBD0B">>,
                    <<"uBD10", "uBD27">>, <<"uBD2C", "uBD43">>, <<"uBD48", "uBD5F">>, <<"uBD64", "uBD7B">>,
                    <<"uBD80", "uBD97">>, <<"uBD9C", "uBDB3">>, <<"uBDB8", "uBDCF">>, <<"uBDD4", "uBDEB">>,
                    <<"uBDF0", "uBE07">>, <<"uBE0C", "uBE23">>, <<"uBE28", "uBE3F">>, <<"uBE44", "uBE5B">>,
                    <<"uBE60", "uBE77">>, <<"uBE7C", "uBE93">>, <<"uBE98", "uBEAF">>, <<"uBEB4", "uBECB">>,
                    <<"uBED0", "uBEE7">>, <<"uBEEC", "uBF03">>, <<"uBF08", "uBF1F">>, <<"uBF24", "uBF3B">>,
                    <<"uBF40", "uBF57">>, <<"uBF5C", "uBF73">>, <<"uBF78", "uBF8F">>, <<"uBF94", "uBFAB">>,
                    <<"uBFB0", "uBFC7">>, <<"uBFCC", "uBFE3">>, <<"uBFE8", "uBFFF">>, <<"uC004", "uC01B">>,
                    <<"uC020", "uC037">>, <<"uC03C", "uC053">>, <<"uC058", "uC06F">>, <<"uC074", "uC08B">>,
                    <<"uC090", "uC0A7">>, <<"uC0AC", "uC0C3">>, <<"uC0C8", "uC0DF">>, <<"uC0E4", "uC0FB">>,
                    <<"uC100", "uC117">>, <<"uC11C", "uC133">>, <<"uC138", "uC14F">>, <<"uC154", "uC16B">>,
                    <<"uC170", "uC187">>, <<"uC18C", "uC1A3">>, <<"uC1A8", "uC1BF">>, <<"uC1C4", "uC1DB">>,
                    <<"uC1E0", "uC1F7">>, <<"uC1FC", "uC213">>, <<"uC218", "uC22F">>, <<"uC234", "uC24B">>,
                    <<"uC250", "uC267">>, <<"uC26C", "uC283">>, <<"uC288", "uC29F">>, <<"uC2A4", "uC2BB">>,
                    <<"uC2C0", "uC2D7">>, <<"uC2DC", "uC2F3">>, <<"uC2F8", "uC30F">>, <<"uC314", "uC32B">>,
                    <<"uC330", "uC347">>, <<"uC34C", "uC363">>, <<"uC368", "uC37F">>, <<"uC384", "uC39B">>,
                    <<"uC3A0", "uC3B7">>, <<"uC3BC", "uC3D3">>, <<"uC3D8", "uC3EF">>, <<"uC3F4", "uC40B">>,
                    <<"uC410", "uC427">>, <<"uC42C", "uC443">>, <<"uC448", "uC45F">>, <<"uC464", "uC47B">>,
                    <<"uC480", "uC497">>, <<"uC49C", "uC4B3">>, <<"uC4B8", "uC4CF">>, <<"uC4D4", "uC4EB">>,
                    <<"uC4F0", "uC507">>, <<"uC50C", "uC523">>, <<"uC528", "uC53F">>, <<"uC544", "uC55B">>,
                    <<"uC560", "uC577">>, <<"uC57C", "uC593">>, <<"uC598", "uC5AF">>, <<"uC5B4", "uC5CB">>,
                    <<"uC5D0", "uC5E7">>, <<"uC5EC", "uC603">>, <<"uC608", "uC61F">>, <<"uC624", "uC63B">>,
                    <<"uC640", "uC657">>, <<"uC65C", "uC673">>, <<"uC678", "uC68F">>, <<"uC694", "uC6AB">>,
                    <<"uC6B0", "uC6C7">>, <<"uC6CC", "uC6E3">>, <<"uC6E8", "uC6FF">>, <<"uC704", "uC71B">>,
                    <<"uC720", "uC737">>, <<"uC73C", "uC753">>, <<"uC758", "uC76F">>, <<"uC774", "uC78B">>,
                    <<"uC790", "uC7A7">>, <<"uC7AC", "uC7C3">>, <<"uC7C8", "uC7DF">>, <<"uC7E4", "uC7FB">>,
                    <<"uC800", "uC817">>, <<"uC81C", "uC833">>, <<"uC838", "uC84F">>, <<"uC854", "uC86B">>,
                    <<"uC870", "uC887">>, <<"uC88C", "uC8A3">>, <<"uC8A8", "uC8BF">>, <<"uC8C4", "uC8DB">>,
                    <<"uC8E0", "uC8F7">>, <<"uC8FC", "uC913">>, <<"uC918", "uC92F">>, <<"uC934", "uC94B">>,
                    <<"uC950", "uC967">>, <<"uC96C", "uC983">>, <<"uC988", "uC99F">>, <<"uC9A4", "uC9BB">>,
                    <<"uC9C0", "uC9D7">>, <<"uC9DC", "uC9F3">>, <<"uC9F8", "uCA0F">>, <<"uCA14", "uCA2B">>,
                    <<"uCA30", "uCA47">>, <<"uCA4C", "uCA63">>, <<"uCA68", "uCA7F">>, <<"uCA84", "uCA9B">>,
                    <<"uCAA0", "uCAB7">>, <<"uCABC", "uCAD3">>, <<"uCAD8", "uCAEF">>, <<"uCAF4", "uCB0B">>,
                    <<"uCB10", "uCB27">>, <<"uCB2C", "uCB43">>, <<"uCB48", "uCB5F">>, <<"uCB64", "uCB7B">>,
                    <<"uCB80", "uCB97">>, <<"uCB9C", "uCBB3">>, <<"uCBB8", "uCBCF">>, <<"uCBD4", "uCBEB">>,
                    <<"uCBF0", "uCC07">>, <<"uCC0C", "uCC23">>, <<"uCC28", "uCC3F">>, <<"uCC44", "uCC5B">>,
                    <<"uCC60", "uCC77">>, <<"uCC7C", "uCC93">>, <<"uCC98", "uCCAF">>, <<"uCCB4", "uCCCB">>,
                    <<"uCCD0", "uCCE7">>, <<"uCCEC", "uCD03">>, <<"uCD08", "uCD1F">>, <<"uCD24", "uCD3B">>,
                    <<"uCD40", "uCD57">>, <<"uCD5C", "uCD73">>, <<"uCD78", "uCD8F">>, <<"uCD94", "uCDAB">>,
                    <<"uCDB0", "uCDC7">>, <<"uCDCC", "uCDE3">>, <<"uCDE8", "uCDFF">>, <<"uCE04", "uCE1B">>,
                    <<"uCE20", "uCE37">>, <<"uCE3C", "uCE53">>, <<"uCE58", "uCE6F">>, <<"uCE74", "uCE8B">>,
                    <<"uCE90", "uCEA7">>, <<"uCEAC", "uCEC3">>, <<"uCEC8", "uCEDF">>, <<"uCEE4", "uCEFB">>,
                    <<"uCF00", "uCF17">>, <<"uCF1C", "uCF33">>, <<"uCF38", "uCF4F">>, <<"uCF54", "uCF6B">>,
                    <<"uCF70", "uCF87">>, <<"uCF8C", "uCFA3">>, <<"uCFA8", "uCFBF">>, <<"uCFC4", "uCFDB">>,
                    <<"uCFE0", "uCFF7">>, <<"uCFFC", "uD013">>, <<"uD018", "uD02F">>, <<"uD034", "uD04B">>,
                    <<"uD050", "uD067">>, <<"uD06C", "uD083">>, <<"uD088", "uD09F">>, <<"uD0A4", "uD0BB">>,
                    <<"uD0C0", "uD0D7">>, <<"uD0DC", "uD0F3">>, <<"uD0F8", "uD10F">>, <<"uD114", "uD12B">>,
                    <<"uD130", "uD147">>, <<"uD14C", "uD163">>, <<"uD168", "uD17F">>, <<"uD184", "uD19B">>,
                    <<"uD1A0", "uD1B7">>, <<"uD1BC", "uD1D3">>, <<"uD1D8", "uD1EF">>, <<"uD1F4", "uD20B">>,
                    <<"uD210", "uD227">>, <<"uD22C", "uD243">>, <<"uD248", "uD25F">>, <<"uD264", "uD27B">>,
                    <<"uD280", "uD297">>, <<"uD29C", "uD2B3">>, <<"uD2B8", "uD2CF">>, <<"uD2D4", "uD2EB">>,
                    <<"uD2F0", "uD307">>, <<"uD30C", "uD323">>, <<"uD328", "uD33F">>, <<"uD344", "uD35B">>,
                    <<"uD360", "uD377">>, <<"uD37C", "uD393">>, <<"uD398", "uD3AF">>, <<"uD3B4", "uD3CB">>,
                    <<"uD3D0", "uD3E7">>, <<"uD3EC", "uD403">>, <<"uD408", "uD41F">>, <<"uD424", "uD43B">>,
                    <<"uD440", "uD457">>, <<"uD45C", "uD473">>, <<"uD478", "uD48F">>, <<"uD494", "uD4AB">>,
                    <<"uD4B0", "uD4C7">>, <<"uD4CC", "uD4E3">>, <<"uD4E8", "uD4FF">>, <<"uD504", "uD51B">>,
                    <<"uD520", "uD537">>, <<"uD53C", "uD553">>, <<"uD558", "uD56F">>, <<"uD574", "uD58B">>,
                    <<"uD590", "uD5A7">>, <<"uD5AC", "uD5C3">>, <<"uD5C8", "uD5DF">>, <<"uD5E4", "uD5FB">>,
                    <<"uD600", "uD617">>, <<"uD61C", "uD633">>, <<"uD638", "uD64F">>, <<"uD654", "uD66B">>,
                    <<"uD670", "uD687">>, <<"uD68C", "uD6A3">>, <<"uD6A8", "uD6BF">>, <<"uD6C4", "uD6DB">>,
                    <<"uD6E0", "uD6F7">>, <<"uD6FC", "uD713">>, <<"uD718", "uD72F">>, <<"uD734", "uD74B">>,
                    <<"uD750", "uD767">>, <<"uD76C", "uD783">>, <<"uD788", "uD79F">>},
         u11BF |-> {<<"uAC00", "uAC18">>, <<"uAC1C", "uAC34">>, <<"uAC38", "uAC50">>, <<"uAC54", "uAC6C">>,
                    <<"uAC70", "uAC88">>, <<"uAC8C", "uACA4">>, <<"uACA8", "uACC0">>, <<"uACC4", "uACDC">>,
                    <<"uACE0", "uACF8">>, <<"uACFC", "uAD14">>, <<"uAD18", "uAD30">>, <<"uAD34", "uAD4C">>,
                    <<"uAD50", "uAD68">>, <<"uAD6C", "uAD84">>, <<"uAD88", "uADA0">>, <<"uADA4", "uADBC">>,
                    <<"uADC0", "uADD8">>, <<"uADDC", "uADF4">>, <<"uADF8", "uAE10">>, <<"uAE14", "uAE2C">>,
                    <<"uAE30", "uAE48">>, <<"uAE4C", "uAE64">>, <<"uAE68", "uAE80">>, <<"uAE84", "uAE9C">>,
                    <<"uAEA0", "uAEB8">>, <<"uAEBC", "uAED4">>, <<"uAED8", "uAEF0">>, <<"uAEF4", "uAF0C">>,
                    <<"uAF10", "uAF28">>, <<"uAF2C", "uAF44">>, <<"uAF48", "uAF60">>, <<"uAF64", "uAF7C">>,
                    <<"uAF80", "uAF98">>, <<"uAF9C", "uAFB4">>, <<"uAFB8", "uAFD0">>, <<"uAFD4", "uAFEC">>,
                    <<"uAFF0", "uB008">>, <<"uB00C", "uB024">>, <<"uB028", "uB040">>, <<"uB044", "uB05C">>,
                    <<"uB060", "uB078">>, <<"uB07C", "uB094">>, <<"uB098", "uB0B0">>, <<"uB0B4", "uB0CC">>,
                    <<"uB0D0", "uB0E8">>, <<"uB0EC", "uB104">>, <<"uB108", "uB120">>, <<"uB124", "uB13C">>,
                    <<"uB140", "uB158">>, <<"uB15C", "uB174">>, <<"uB178", "uB190">>, <<"uB194", "uB1AC">>,
                    <<"uB1B0", "uB1C8">>, <<"uB1CC", "uB1E4">>, <<"uB1E8", "uB200">>, <<"uB204", "uB21C">>,
                    <<"uB220", "uB238">>, <<"uB23C", "uB254">>, <<"uB258", "uB270">>, <<"uB274", "uB28C">>,
                    <<"uB290", "uB2A8">>, <<"uB2AC", "uB2C4">>, <<"uB2C8", "uB2E0">>, <<"uB2E4", "uB2FC">>,
                    <<"uB300", "uB318">>, <<"uB31C", "uB334">>, <<"uB338", "uB350">>, <<"uB354", "uB36C">>,
                    <<"uB370", "uB388">>, <<"uB38C", "uB3A4">>, <<"uB3A8", "uB3C0">>, <<"uB3C4", "uB3DC">>,
                    <<"uB3E0", "uB3F8">>, <<"uB3FC", "uB414">>, <<"uB418", "uB430">>, <<"uB434", "uB44C">>,
                    <<"uB450", "uB468">>, <<"uB46C", "uB484">>, <<"uB488", "uB4A0">>, <<"uB4A4", "uB4BC">>,
                    <<"uB4C0", "uB4D8">>, <<"uB4DC", "uB4F4">>, <<"uB4F8", "uB510">>, <<"uB514", "uB52C">>,
                    <<"uB530", "uB548">>, <<"uB54C", "uB564">>, <<"uB568", "uB580">>, <<"uB584", "uB59C">>,
                    <<"uB5A0", "uB5B8">>, <<"uB5BC", "uB5D4">>, <<"uB5D8", "uB5F0">>, <<"uB5F4", "uB60C">>,
                    <<"uB610", "uB628">>, <<"uB62C", "uB644">>, <<"uB648", "uB660">>, <<"uB664", "uB67C">>,
                    <<"uB680", "uB698">>, <<"uB69C", "uB6B4">>, <<"uB6B8", "uB6D0">>, <<"uB6D4", "uB6EC">>,
                    <<"uB6F0", "uB708">>, <<"uB70C", "uB724">>, <<"uB728", "uB740">>, <<"uB744", "uB75C">>,
                    <<"uB760", "uB778">>, <<"uB77C", "uB794">>, <<"uB798", "uB7B0">>, <<"uB7B4", "uB7CC">>,
                    <<"uB7D0", "uB7E8">>, <<"uB7EC", "uB804">>, <<"uB808", "uB820">>, <<"uB824", "uB83C">>,
                    <<"uB840", "uB858">>, <<"uB85C", "uB874">>, <<"uB878", "uB890">>, <<"uB894", "uB8AC">>,
                    <<"uB8B0", "uB8C8">>, <<"uB8CC", "uB8E4">>, <<"uB8E8", "uB900">>, <<"uB904", "uB91C">>,
                    <<"uB920", "uB938">>, <<"uB93C", "uB954">>, <<"uB958", "uB970">>, <<"uB974", "uB98C">>,
                    <<"uB990", "uB9A8">>, <<"uB9AC", "uB9C4">>, <<"uB9C8", "uB9E0">>, <<"uB9E4", "uB9FC">>,
                    <<"uBA00", "uBA18">>, <<"uBA1C", "uBA34">>, <<"uBA38", "uBA50">>, <<"uBA54", "uBA6C">>,
                    <<"uBA70", "uBA88">>, <<"uBA8C", "uBAA4">>, <<"uBAA8", "uBAC0">>, <<"uBAC4", "uBADC">>,
                    <<"uBAE0", "uBAF8">>, <<"uBAFC", "uBB14">>, <<"uBB18", "uBB30">>, <<"uBB34", "uBB4C">>,
                    <<"uBB50", "uBB68">>, <<"uBB6C", "uBB84">>, <<"uBB88", "uBBA0">>, <<"uBBA4", "uBBBC">>,
                    <<"uBBC0", "uBBD8">>, <<"uBBDC", "uBBF4">>, <<"uBBF8", "uBC10">>, <<"uBC14", "uBC2C">>,
                    <<"uBC30", "uBC48">>, <<"uBC4C", "uBC64">>, <<"uBC68", "uBC80">>, <<"uBC84", "uBC9C">>,
                    <<"uBCA0", "uBCB8">>, <<"uBCBC", "uBCD4">>, <<"uBCD8", "uBCF0">>, <<"uBCF4", "uBD0C">>,
                    <<"uBD10", "uBD28">>, <<"uBD2C", "uBD44">>, <<"uBD48", "uBD60">>, <<"uBD64", "uBD7C">>,
                    <<"uBD80", "uBD98">>, <<"uBD9C", "uBDB4">>, <<"uBDB8", "uBDD0">>, <<"uBDD4", "uBDEC">>,
                    <<"uBDF0", "uBE08">>, <<"uBE0C", "uBE24">>, <<"uBE28", "uBE40">>, <<"uBE44", "uBE5C">>,
                    <<"uBE60", "uBE78">>, <<"uBE7C", "uBE94">>, <<"uBE98", "uBEB0">>, <<"uBEB4", "uBECC">>,
                    <<"uBED0", "uBEE8">>, <<"uBEEC", "uBF04">>, <<"uBF08", "uBF20">>, <<"uBF24", "uBF3C">>,
                    <<"uBF40", "uBF58">>, <<"uBF5C", "uBF74">>, <<"uBF78", "uBF90">>, <<"uBF94", "uBFAC">>,
                    <<"uBFB0", "uBFC8">>, <<"uBFCC", "uBFE4">>, <<"uBFE8", "uC000">>, <<"uC004", "uC01C">>,
                    <<"uC020", "uC038">>, <<"uC03C", "uC054">>, <<"uC058", "uC070">>, <<"uC074", "uC08C">>,
                    <<"uC090", "uC0A8">>, <<"uC0AC", "uC0C4">>, <<"uC0C8", "uC0E0">>, <<"uC0E4", "uC0FC">>,
                    <<"uC100", "uC118">>, <<"uC11C", "uC134">>, <<"uC138", "uC150">>, <<"uC154", "uC16C">>,
                    <<"uC170", "uC188">>, <<"uC18C", "uC1A4">>, <<"uC1A8", "uC1C0">>, <<"uC1C4", "uC1DC">>,
                    <<"uC1E0", "uC1F8">>, <<"uC1FC", "uC214">>, <<"uC218", "uC230">>, <<"uC234", "uC24C">>,
                    <<"uC250", "uC268">>, <<"uC26C", "uC284">>, <<"uC288", "uC2A0">>, <<"uC2A4", "uC2BC">>,
                    <<"uC2C0", "uC2D8">>, <<"uC2DC", "uC2F4">>, <<"uC2F8", "uC310">>, <<"uC314", "uC32C">>,
                    <<"uC330", "uC348">>, <<"uC34C", "uC364">>, <<"uC368", "uC380">>, <<"uC384", "uC39C">>,
                    <<"uC3A0", "uC3B8">>, <<"uC3BC", "uC3D4">>, <<"uC3D8", "uC3F0">>, <<"uC3F4", "uC40C">>,
                    <<"uC410", "uC428">>, <<"uC42C", "uC444">>, <<"uC448", "uC460">>, <<"uC464", "uC47C">>,
                    <<"uC480", "uC498">>, <<"uC49C", "uC4B4">>, <<"uC4B8", "uC4D0">>, <<"uC4D4", "uC4EC">>,
                    <<"uC4F0", "uC508">>, <<"uC50C", "uC524">>, <<"uC528", "uC540">>, <<"uC544", "uC55C">>,
                    <<"uC560", "uC578">>, <<"uC57C", "uC594">>, <<"uC598", "uC5B0">>, <<"uC5B4", "uC5CC">>,
                    <<"uC5D0", "uC5E8">>, <<"uC5EC", "uC604">>, <<"uC608", "uC620">>, <<"uC624", "uC63C">>,
                    <<"uC640", "uC658">>, <<"uC65C", "uC674">>, <<"uC678", "uC690">>, <<"uC694", "uC6AC">>,
                    <<"uC6B0", "uC6C8">>, <<"uC6CC", "uC6E4">>, <<"uC6E8", "uC700">>, <<"uC704", "uC71C">>,
                    <<"uC720", "uC738">>, <<"uC73C", "uC754">>, <<"uC758", "uC770">>, <<"uC774", "uC78C">>,
                    <<"uC790", "uC7A8">>, <<"uC7AC", "uC7C4">>, <<"uC7C8", "uC7E0">>, <<"uC7E4", "uC7FC">>,
                    <<"uC800", "uC818">>, <<"uC81C", "uC834">>, <<"uC838", "uC850">>, <<"uC854", "uC86C">>,
                    <<"uC870", "uC888">>, <<"uC88C", "uC8A4">>, <<"uC8A8", "uC8C0">>, <<"uC8C4", "uC8DC">>,
                    <<"uC8E0", "uC8F8">>, <<"uC8FC", "uC914">>, <<"uC918", "uC930">>, <<"uC934", "uC94C">>,
                    <<"uC950", "uC968">>, <<"uC96C", "uC984">>, <<"uC988", "uC9A0">>, <<"uC9A4", "uC9BC">>,
                    <<"uC9C0", "uC9D8">>, <<"uC9DC", "uC9F4">>, <<"uC9F8", "uCA10">>, <<"uCA14", "uCA2C">>,
                    <<"uCA30", "uCA48">>, <<"uCA4C", "uCA64">>, <<"uCA68", "uCA80">>, <<"uCA84", "uCA9C">>,
                    <<"uCAA0", "uCAB8">>, <<"uCABC", "uCAD4">>, <<"uCAD8", "uCAF0">>, <<"uCAF4", "uCB0C">>,
                    <<"uCB10", "uCB28">>, <<"uCB2C", "uCB44">>, <<"uCB48", "uCB60">>, <<"uCB64", "uCB7C">>,
                    <<"uCB80", "uCB98">>, <<"uCB9C", "uCBB4">>, <<"uCBB8", "uCBD0">>, <<"uCBD4", "uCBEC">>,
                    <<"uCBF0", "uCC08">>, <<"uCC0C", "uCC24">>, <<"uCC28", "uCC40">>, <<"uCC44", "uCC5C">>,
                    <<"uCC60", "uCC78">>, <<"uCC7C", "uCC94">>, <<"uCC98", "uCCB0">>, <<"uCCB4", "uCCCC">>,
                    <<"uCCD0", "uCCE8">>, <<"uCCEC", "uCD04">>, <<"uCD08", "uCD20">>, <<"uCD24", "uCD3C">>,
                    <<"uCD40", "uCD58">>, <<"uCD5C", "uCD74">>, <<"uCD78", "uCD90">>, <<"uCD94", "uCDAC">>,
                    <<"uCDB0", "uCDC8">>, <<"uCDCC", "uCDE4">>, <<"uCDE8", "uCE00">>, <<"uCE04", "uCE1C">>,
                    <<"uCE20", "uCE38">>, <<"uCE3C", "uCE54">>, <<"uCE58", "uCE70">>, <<"uCE74", "uCE8C">>,
                    <<"uCE90", "uCEA8">>, <<"uCEAC", "uCEC4">>, <<"uCEC8", "uCEE0">>, <<"uCEE4", "uCEFC">>,
                    <<"uCF00", "uCF18">>, <<"uCF1C", "uCF34">>, <<"uCF38", "uCF50">>, <<"uCF54", "uCF6C">>,
                    <<"uCF70", "uCF88">>, <<"uCF8C", "uCFA4">>, <<"uCFA8", "uCFC0">>, <<"uCFC4", "uCFDC">>,
                    <<"uCFE0", "uCFF8">>, <<"uCFFC", "uD014">>, <<"uD018", "uD030">>, <<"uD034", "uD04C">>,
                    <<"uD050", "uD068">>, <<"uD06C", "uD084">>, <<"uD088", "uD0A0">>, <<"uD0A4", "uD0BC">>,
                    <<"uD0C0", "uD0D8">>, <<"uD0DC", "uD0F4">>, <<"uD0F8", "uD110">>, <<"uD114", "uD12C">>,
                    <<"uD130", "uD148">>, <<"uD14C", "uD164">>, <<"uD168", "uD180">>, <<"uD184", "uD19C">>,
                    <<"uD1A0", "uD1B8">>, <<"uD1BC", "uD1D4">>, <<"uD1D8", "uD1F0">>, <<"uD1F4", "uD20C">>,
                    <<"uD210", "uD228">>, <<"uD22C", "uD244">>, <<"uD248", "uD260">>, <<"uD264", "uD27C">>,
                    <<"uD280", "uD298">>, <<"uD29C", "uD2B4">>, <<"uD2B8", "uD2D0">>, <<"uD2D4", "uD2EC">>,
                    <<"uD2F0", "uD308">>, <<"uD30C", "uD324">>, <<"uD328", "uD340">>, <<"uD344", "uD35C">>,
                    <<"uD360", "uD378">>, <<"uD37C", "uD394">>, <<"uD398", "uD3B0">>, <<"uD3B4", "uD3CC">>,
                    <<"uD3D0", "uD3E8">>, <<"uD3EC", "uD404">>, <<"uD408", "uD420">>, <<"uD424", "uD43C">>,
                    <<"uD440", "uD458">>, <<"uD45C", "uD474">>, <<"uD478", "uD490">>, <<"uD494", "uD4AC">>,
                    <<"uD4B0", "uD4C8">>, <<"uD4CC", "uD4E4">>, <<"uD4E8", "uD500">>, <<"uD504", "uD51C">>,
                    <<"uD520", "uD538">>, <<"uD53C", "uD554">>, <<"uD558", "uD570">>, <<"uD574", "uD58C">>,
                    <<"uD590", "uD5A8">>, <<"uD5AC", "uD5C4">>, <<"uD5C8", "uD5E0">>, <<"uD5E4", "uD5FC">>,
                    <<"uD600", "uD618">>, <<"uD61C", "uD634">>, <<"uD638", "uD650">>, <<"uD654", "uD66C">>,
                    <<"uD670", "uD688">>, <<"uD68C", "uD6A4">>, <<"uD6A8", "uD6C0">>, <<"uD6C4", "uD6DC">>,
                    <<"uD6E0", "uD6F8">>, <<"uD6FC", "uD714">>, <<"uD718", "uD730">>, <<"uD734", "uD74C">>,
                    <<"uD750", "uD768">>, <<"uD76C", "uD784">>, <<"uD788", "uD7A0">>},
         u11C0 |-> {<<"uAC00", "uAC19">>, <<"uAC1C", "uAC35">>, <<"uAC38", "uAC51">>, <<"uAC54", "uAC6D">>,
                    <<"uAC70", "uAC89">>, <<"uAC8C", "uACA5">>, <<"uACA8", "uACC1">>, <<"uACC4", "uACDD">>,
                    <<"uACE0", "uACF9">>, <<"uACFC", "uAD15">>, <<"uAD18", "uAD31">>, <<"uAD34", "uAD4D">>,
                    <<"uAD50", "uAD69">>, <<"uAD6C", "uAD85">>, <<"uAD88", "uADA1">>, <<"uADA4", "uADBD">>,
                    <<"uADC0", "uADD9">>, <<"uADDC", "uADF5">>, <<"uADF8", "uAE11">>, <<"uAE14", "uAE2D">>,
                    <<"uAE30", "uAE49">>, <<"uAE4C", "uAE65">>, <<"uAE68", "uAE81">>, <<"uAE84", "uAE9D">>,
                    <<"uAEA0", "uAEB9">>, <<"uAEBC", "uAED5">>, <<"uAED8", "uAEF1">>, <<"uAEF4", "uAF0D">>,
                    <<"uAF10", "uAF29">>, <<"uAF2C", "uAF45">>, <<"uAF48", "uAF61">>, <<"uAF64", "uAF7D">>,
                    <<"uAF80", "uAF99">>, <<"uAF9C", "uAFB5">>, <<"uAFB8", "uAFD1">>, <<"uAFD4", "uAFED">>,
                    <<"uAFF0", "uB009">>, <<"uB00C", "uB025">>, <<"uB028", "uB041">>, <<"uB044", "uB05D">>,
                    <<"uB060", "uB079">>, <<"uB07C", "uB095">>, <<"uB098", "uB0B1">>, <<"uB0B4", "uB0CD">>,
                    <<"uB0D0", "uB0E9">>, <<"uB0EC", "uB105">>, <<"uB108", "uB121">>, <<"uB124", "uB13D">>,
                    <<"uB140", "uB159">>, <<"uB15C", "uB175">>, <<"uB178", "uB191">>, <<"uB194", "uB1AD">>,
                    <<"uB1B0", "uB1C9">>, <<"uB1CC", "uB1E5">>, <<"uB1E8", "uB201">>, <<"uB204", "uB21D">>,
                    <<"uB220", "uB239">>, <<"uB23C", "uB255">>, <<"uB258", "uB271">>, <<"uB274", "uB28D">>,
                    <<"uB290", "uB2A9">>, <<"uB2AC", "uB2C5">>, <<"uB2C8", "uB2E1">>, <<"uB2E4", "uB2FD">>,
                    <<"uB300", "uB319">>, <<"uB31C", "uB335">>, <<"uB338", "uB351">>, <<"uB354", "uB36D">>,
                    <<"uB370", "uB389">>, <<"uB38C", "uB3A5">>, <<"uB3A8", "uB3C1">>, <<"uB3C4", "uB3DD">>,
                    <<"uB3E0", "uB3F9">>, <<"uB3FC", "uB415">>, <<"uB418", "uB431">>, <<"uB434", "uB44D">>,
                    <<"uB450", "uB469">>, <<"uB46C", "uB485">>, <<"uB488", "uB4A1">>, <<"uB4A4", "uB4BD">>,
                    <<"uB4C0", "uB4D9">>, <<"uB4DC", "uB4F5">>, <<"uB4F8", "uB511">>, <<"uB514", "uB52D">>,
                    <<"uB530", "uB549">>, <<"uB54C", "uB565">>, <<"uB568", "uB581">>, <<"uB584", "uB59D">>,
                    <<"uB5A0", "uB5B9">>, <<"uB5BC", "uB5D5">>, <<"uB5D8", "uB5F1">>, <<"uB5F4", "uB60D">>,
                    <<"uB610", "uB629">>, <<"uB62C", "uB645">>, <<"uB648", "uB661">>, <<"uB664", "uB67D">>,
                    <<"uB680", "uB699">>, <<"uB69C", "uB6B5">>, <<"uB6B8", "uB6D1">>, <<"uB6D4", "uB6ED">>,
                    <<"uB6F0", "uB709">>, <<"uB70C", "uB725">>, <<"uB728", "uB741">>, <<"uB744", "uB75D">>,
                    <<"uB760", "uB779">>, <<"uB77C", "uB795">>, <<"uB798", "uB7B1">>, <<"uB7B4", "uB7CD">>,
                    <<"uB7D0", "uB7E9">>, <<"uB7EC", "uB805">>, <<"uB808", "uB821">>, <<"uB824", "uB83D">>,
                    <<"uB840", "uB859">>, <<"uB85C", "uB875">>, <<"uB878", "uB891">>, <<"uB894", "uB8AD">>,
                    <<"uB8B0", "uB8C9">>, <<"uB8CC", "uB8E5">>, <<"uB8E8", "uB901">>, <<"uB904", "uB91D">>,
                    <<"uB920", "uB939">>, <<"uB93C", "uB955">>, <<"uB958", "uB971">>, <<"uB974", "uB98D">>,
                    <<"uB990", "uB9A9">>, <<"uB9AC", "uB9C5">>, <<"uB9C8", "uB9E1">>, <<"uB9E4", "uB9FD">>,
                    <<"uBA00", "uBA19">>, <<"uBA1C", "uBA35">>, <<"uBA38", "uBA51">>, <<"uBA54", "uBA6D">>,
                    <<"uBA70", "uBA89">>, <<"uBA8C", "uBAA5">>, <<"uBAA8", "uBAC1">>, <<"uBAC4", "uBADD">>,
                    <<"uBAE0", "uBAF9">>, <<"uBAFC", "uBB15">>, <<"uBB18", "uBB31">>, <<"uBB34", "uBB4D">>,
                    <<"uBB50", "uBB69">>, <<"uBB6C", "uBB85">>, <<"uBB88", "uBBA1">>, <<"uBBA4", "uBBBD">>,
                    <<"uBBC0", "uBBD9">>, <<"uBBDC", "uBBF5">>, <<"uBBF8", "uBC11">>, <<"uBC14", "uBC2D">>,
                    <<"uBC30", "uBC49">>, <<"uBC4C", "uBC65">>, <<"uBC68", "uBC81">>, <<"uBC84", "uBC9D">>,
                    <<"uBCA0", "uBCB9">>, <<"uBCBC", "uBCD5">>, <<"uBCD8", "uBCF1">>, <<"uBCF4", "uBD0D">>,
                    <<"uBD10", "uBD29">>, <<"uBD2C", "uBD45">>, <<"uBD48", "uBD61">>, <<"uBD64", "uBD7D">>,
                    <<"uBD80", "uBD99">>, <<"uBD9C", "uBDB5">>, <<"uBDB8", "uBDD1">>, <<"uBDD4", "uBDED">>,
                    <<"uBDF0", "uBE09">>, <<"uBE0C", "uBE25">>, <<"uBE28", "uBE41">>, <<"uBE44", "uBE5D">>,
                    <<"uBE60", "uBE79">>, <<"uBE7C", "uBE95">>, <<"uBE98", "uBEB1">>, <<"uBEB4", "uBECD">>,
                    <<"uBED0", "uBEE9">>, <<"uBEEC", "uBF05">>, <<"uBF08", "uBF21">>, <<"uBF24", "uBF3D">>,
                    <<"uBF40", "uBF59">>, <<"uBF5C", "uBF75">>, <<"uBF78", "uBF91">>, <<"uBF94", "uBFAD">>,
                    <<"uBFB0", "uBFC9">>, <<"uBFCC", "uBFE5">>, <<"uBFE8", "uC001">>, <<"uC004", "uC01D">>,
                    <<"uC020", "uC039">>, <<"uC03C", "uC055">>, <<"uC058", "uC071">>, <<"uC074", "uC08D">>,
                    <<"uC090", "uC0A9">>, <<"uC0AC", "uC0C5">>, <<"uC0C8", "uC0E1">>, <<"uC0E4", "uC0FD">>,
                    <<"uC100", "uC119">>, <<"uC11C", "uC135">>, <<"uC138", "uC151">>, <<"uC154", "uC16D">>,
                    <<"uC170", "uC189">>, <<"uC18C", "uC1A5">>, <<"uC1A8", "uC1C1">>, <<"uC1C4", "uC1DD">>,
                    <<"uC1E0", "uC1F9">>, <<"uC1FC", "uC215">>, <<"uC218", "uC231">>, <<"uC234", "uC24D">>,
                    <<"uC250", "uC269">>, <<"uC26C", "uC285">>, <<"uC288", "uC2A1">>, <<"uC2A4", "uC2BD">>,
                    <<"uC2C0", "uC2D9">>, <<"uC2DC", "uC2F5">>, <<"uC2F8", "uC311">>, <<"uC314", "uC32D">>,
                    <<"uC330", "uC349">>, <<"uC34C", "uC365">>, <<"uC368", "uC381">>, <<"uC384", "uC39D">>,
                    <<"uC3A0", "uC3B9">>, <<"uC3BC", "uC3D5">>, <<"uC3D8", "uC3F1">>, <<"uC3F4", "uC40D">>,
                    <<"uC410", "uC429">>, <<"uC42C", "uC445">>, <<"uC448", "uC461">>, <<"uC464", "uC47D">>,
                    <<"uC480", "uC499">>, <<"uC49C", "uC4B5">>, <<"uC4B8", "uC4D1">>, <<"uC4D4", "uC4ED">>,
                    <<"uC4F0", "uC509">>, <<"uC50C", "uC525">>, <<"uC528", "uC541">>, <<"uC544", "uC55D">>,
                    <<"uC560", "uC579">>, <<"uC57C", "uC595">>, <<"uC598", "uC5B1">>, <<"uC5B4", "uC5CD">>,
                    <<"uC5D0", "uC5E9">>, <<"uC5EC", "uC605">>, <<"uC608", "uC621">>, <<"uC624", "uC63D">>,
                    <<"uC640", "uC659">>, <<"uC65C", "uC675">>, <<"uC678", "uC691">>, <<"uC694", "uC6AD">>,
                    <<"uC6B0", "uC6C9">>, <<"uC6CC", "uC6E5">>, <<"uC6E8", "uC701">>, <<"uC704", "uC71D">>,
                    <<"uC720", "uC739">>, <<"uC73C", "uC755">>, <<"uC758", "uC771">>, <<"uC774", "uC78D">>,
                    <<"uC790", "uC7A9">>, <<"uC7AC", "uC7C5">>, <<"uC7C8", "uC7E1">>, <<"uC7E4", "uC7FD">>,
                    <<"uC800", "uC819">>, <<"uC81C", "uC835">>, <<"uC838", "uC851">>, <<"uC854", "uC86D">>,
                    <<"uC870", "uC889">>, <<"uC88C", "uC8A5">>, <<"uC8A8", "uC8C1">>, <<"uC8C4", "uC8DD">>,
                    <<"uC8E0", "uC8F9">>, <<"uC8FC", "uC915">>, <<"uC918", "uC931">>, <<"uC934", "uC94D">>,
                    <<"uC950", "uC969">>, <<"uC96C", "uC985">>, <<"uC988", "uC9A1">>, <<"uC9A4", "uC9BD">>,
                    <<"uC9C0", "uC9D9">>, <<"uC9DC", "uC9F5">>, <<"uC9F8", "uCA11">>, <<"uCA14", "uCA2D">>,
                    <<"uCA30", "uCA49">>, <<"uCA4C", "uCA65">>, <<"uCA68", "uCA81">>, <<"uCA84", "uCA9D">>,
                    <<"uCAA0", "uCAB9">>, <<"uCABC", "uCAD5">>, <<"uCAD8", "uCAF1">>, <<"uCAF4", "uCB0D">>,
                    <<"uCB10", "uCB29">>, <<"uCB2C", "uCB45">>, <<"uCB48", "uCB61">>, <<"uCB64", "uCB7D">>,
                    <<"uCB80", "uCB99">>, <<"uCB9C", "uCBB5">>, <<"uCBB8", "uCBD1">>, <<"uCBD4", "uCBED">>,
                    <<"uCBF0", "uCC09">>, <<"uCC0C", "uCC25">>, <<"uCC28", "uCC41">>, <<"uCC44", "uCC5D">>,
                    <<"uCC60", "uCC79">>, <<"uCC7C", "uCC95">>, <<"uCC98", "uCCB1">>, <<"uCCB4", "uCCCD">>,
                    <<"uCCD0", "uCCE9">>, <<"uCCEC", "uCD05">>, <<"uCD08", "uCD21">>, <<"uCD24", "uCD3D">>,
                    <<"uCD40", "uCD59">>, <<"uCD5C", "uCD75">>, <<"uCD78", "uCD91">>, <<"uCD94", "uCDAD">>,
                    <<"uCDB0", "uCDC9">>, <<"uCDCC", "uCDE5">>, <<"uCDE8", "uCE01">>, <<"uCE04", "uCE1D">>,
                    <<"uCE20", "uCE39">>, <<"uCE3C", "uCE55">>, <<"uCE58", "uCE71">>, <<"uCE74", "uCE8D">>,
                    <<"uCE90", "uCEA9">>, <<"uCEAC", "uCEC5">>, <<"uCEC8", "uCEE1">>, <<"uCEE4", "uCEFD">>,
                    <<"uCF00", "uCF19">>, <<"uCF1C", "uCF35">>, <<"uCF38", "uCF51">>, <<"uCF54", "uCF6D">>,
                    <<"uCF70", "uCF89">>, <<"uCF8C", "uCFA5">>, <<"uCFA8", "uCFC1">>, <<"uCFC4", "uCFDD">>,
                    <<"uCFE0", "uCFF9">>, <<"uCFFC", "uD015">>, <<"uD018", "uD031">>, <<"uD034", "uD04D">>,
                    <<"uD050", "uD069">>, <<"uD06C", "uD085">>, <<"uD088", "uD0A1">>, <<"uD0A4", "uD0BD">>,
                    <<"uD0C0", "uD0D9">>, <<"uD0DC", "uD0F5">>, <<"uD0F8", "uD111">>, <<"uD114", "uD12D">>,
                    <<"uD130", "uD149">>, <<"uD14C", "uD165">>, <<"uD168", "uD181">>, <<"uD184", "uD19D">>,
                    <<"uD1A0", "uD1B9">>, <<"uD1BC", "uD1D5">>, <<"uD1D8", "uD1F1">>, <<"uD1F4", "uD20D">>,
                    <<"uD210", "uD229">>, <<"uD22C", "uD245">>, <<"uD248", "uD261">>, <<"uD264", "uD27D">>,
                    <<"uD280", "uD299">>, <<"uD29C", "uD2B5">>, <<"uD2B8", "uD2D1">>, <<"uD2D4", "uD2ED">>,
                    <<"uD2F0", "uD309">>, <<"uD30C", "uD325">>, <<"uD328", "uD341">>, <<"uD344", "uD35D">>,
                    <<"uD360", "uD379">>, <<"uD37C", "uD395">>, <<"uD398", "uD3B1">>, <<"uD3B4", "uD3CD">>,
                    <<"uD3D0", "uD3E9">>, <<"uD3EC", "uD405">>, <<"uD408", "uD421">>, <<"uD424", "uD43D">>,
                    <<"uD440", "uD459">>, <<"uD45C", "uD475">>, <<"uD478", "uD491">>, <<"uD494", "uD4AD">>,
                    <<"uD4B0", "uD4C9">>, <<"uD4CC", "uD4E5">>, <<"uD4E8", "uD501">>, <<"uD504", "uD51D">>,
                    <<"uD520", "uD539">>, <<"uD53C", "uD555">>, <<"uD558", "uD571">>, <<"uD574", "uD58D">>,
                    <<"uD590", "uD5A9">>, <<"uD5AC", "uD5C5">>, <<"uD5C8", "uD5E1">>, <<"uD5E4", "uD5FD">>,
                    <<"uD600", "uD619">>, <<"uD61C", "uD635">>, <<"uD638", "uD651">>, <<"uD654", "uD66D">>,
                    <<"uD670", "uD689">>, <<"uD68C", "uD6A5">>, <<"uD6A8", "uD6C1">>, <<"uD6C4", "uD6DD">>,
                    <<"uD6E0", "uD6F9">>, <<"uD6FC", "uD715">>, <<"uD718", "uD731">>, <<"uD734", "uD74D">>,
                    <<"uD750", "uD769">>, <<"uD76C", "uD785">>, <<"uD788", "uD7A1">>},
         u11C1 |-> {<<"uAC00", "uAC1A">>, <<"uAC1C", "uAC36">>, <<"uAC38", "uAC52">>, <<"uAC54", "uAC6E">>,
                    <<"uAC70", "uAC8A">>, <<"uAC8C", "uACA6">>, <<"uACA8", "uACC2">>, <<"uACC4", "uACDE">>,
                    <<"uACE0", "uACFA">>, <<"uACFC", "uAD16">>, <<"uAD18", "uAD32">>, <<"uAD34", "uAD4E">>,
                    <<"uAD50", "uAD6A">>, <<"uAD6C", "uAD86">>, <<"uAD88", "uADA2">>, <<"uADA4", "uADBE">>,
                    <<"uADC0", "uADDA">>, <<"uADDC", "uADF6">>, <<"uADF8", "uAE12">>, <<"uAE14", "uAE2E">>,
                    <<"uAE30", "uAE4A">>, <<"uAE4C", "uAE66">>, <<"uAE68", "uAE82">>, <<"uAE84", "uAE9E">>,
                    <<"uAEA0", "uAEBA">>, <<"uAEBC", "uAED6">>, <<"uAED8", "uAEF2">>, <<"uAEF4", "uAF0E">>,
                    <<"uAF10", "uAF2A">>, <<"uAF2C", "uAF46">>, <<"uAF48", "uAF62">>, <<"uAF64", "uAF7E">>,
                    <<"uAF80", "uAF9A">>, <<"uAF9C", "uAFB6">>, <<"uAFB8", "uAFD2">>, <<"uAFD4", "uAFEE">>,
                    <<"uAFF0", "uB00A">>, <<"uB00C", "uB026">>, <<"uB028", "uB042">>, <<"uB044", "uB05E">>,
                    <<"uB060", "uB07A">>, <<"uB07C", "uB096">>, <<"uB098", "uB0B2">>, <<"uB0B4", "uB0CE">>,
                    <<"uB0D0", "uB0EA">>, <<"uB0EC", "uB106">>, <<"uB108", "uB122">>, <<"uB124", "uB13E">>,
                    <<"uB140", "uB15A">>, <<"uB15C", "uB176">>, <<"uB178", "uB192">>, <<"uB194", "uB1AE">>,
                    <<"uB1B0", "uB1CA">>, <<"uB1CC", "uB1E6">>, <<"uB1E8", "uB202">>, <<"uB204", "uB21E">>,
                    <<"uB220", "uB23A">>, <<"uB23C", "uB256">>, <<"uB258", "uB272">>, <<"uB274", "uB28E">>,
                    <<"uB290", "uB2AA">>, <<"uB2AC", "uB2C6">>, <<"uB2C8", "uB2E2">>, <<"uB2E4", "uB2FE">>,
                    <<"uB300", "uB31A">>, <<"uB31C", "uB336">>, <<"uB338", "uB352">>, <<"uB354", "uB36E">>,
                    <<"uB370", "uB38A">>, <<"uB38C", "uB3A6">>, <<"uB3A8", "uB3C2">>, <<"uB3C4", "uB3DE">>,
                    <<"uB3E0", "uB3FA">>, <<"uB3FC", "uB416">>, <<"uB418", "uB432">>, <<"uB434", "uB44E">>,
                    <<"uB450", "uB46A">>, <<"uB46C", "uB486">>, <<"uB488", "uB4A2">>, <<"uB4A4", "uB4BE">>,
                    <<"uB4C0", "uB4DA">>, <<"uB4DC", "uB4F6">>, <<"uB4F8", "uB512">>, <<"uB514", "uB52E">>,
                    <<"uB530", "uB54A">>, <<"uB54C", "uB566">>, <<"uB568", "uB582">>, <<"uB584", "uB59E">>,
                    <<"uB5A0", "uB5BA">>, <<"uB5BC", "uB5D6">>, <<"uB5D8", "uB5F2">>, <<"uB5F4", "uB60E">>,
                    <<"uB610", "uB62A">>, <<"uB62C", "uB646">>, <<"uB648", "uB662">>, <<"uB664", "uB67E">>,
                    <<"uB680", "uB69A">>, <<"uB69C", "uB6B6">>, <<"uB6B8", "uB6D2">>, <<"uB6D4", "uB6EE">>,
                    <<"uB6F0", "uB70A">>, <<"uB70C", "uB726">>, <<"uB728", "uB742">>, <<"uB744", "uB75E">>,
                    <<"uB760", "uB77A">>, <<"uB77C", "uB796">>, <<"uB798", "uB7B2">>, <<"uB7B4", "uB7CE">>,
                    <<"uB7D0", "uB7EA">>, <<"uB7EC", "uB806">>, <<"uB808", "uB822">>, <<"uB824", "uB83E">>,
                    <<"uB840", "uB85A">>, <<"uB85C", "uB876">>, <<"uB878", "uB892">>, <<"uB894", "uB8AE">>,
                    <<"uB8B0", "uB8CA">>, <<"uB8CC", "uB8E6">>, <<"uB8E8", "uB902">>, <<"uB904", "uB91E">>,
                    <<"uB920", "uB93A">>, <<"uB93C", "uB956">>, <<"uB958", "uB972">>, <<"uB974", "uB98E">>,
                    <<"uB990", "uB9AA">>, <<"uB9AC", "uB9C6">>, <<"uB9C8", "uB9E2">>, <<"uB9E4", "uB9FE">>,
                    <<"uBA00", "uBA1A">>, <<"uBA1C", "uBA36">>, <<"uBA38", "uBA52">>, <<"uBA54", "uBA6E">>,
                    <<"uBA70", "uBA8A">>, <<"uBA8C", "uBAA6">>, <<"uBAA8", "uBAC2">>, <<"uBAC4", "uBADE">>,
                    <<"uBAE0", "uBAFA">>, <<"uBAFC", "uBB16">>, <<"uBB18", "uBB32">>, <<"uBB34", "uBB4E">>,
                    <<"uBB50", "uBB6A">>, <<"uBB6C", "uBB86">>, <<"uBB88", "uBBA2">>, <<"uBBA4", "uBBBE">>,
                    <<"uBBC0", "uBBDA">>, <<"uBBDC", "uBBF6">>, <<"uBBF8", "uBC12">>, <<"uBC14", "uBC2E">>,
                    <<"uBC30", "uBC4A">>, <<"uBC4C", "uBC66">>, <<"uBC68", "uBC82">>, <<"uBC84", "uBC9E">>,
                    <<"uBCA0", "uBCBA">>, <<"uBCBC", "uBCD6">>, <<"uBCD8", "uBCF2">>, <<"uBCF4", "uBD0E">>,
                    <<"uBD10", "uBD2A">>, <<"uBD2C", "uBD46">>, <<"uBD48", "uBD62">>, <<"uBD64", "uBD7E">>,
                    <<"uBD80", "uBD9A">>, <<"uBD9C", "uBDB6">>, <<"uBDB8", "uBDD2">>, <<"uBDD4", "uBDEE">>,
                    <<"uBDF0", "uBE0A">>, <<"uBE0C", "uBE26">>, <<"uBE28", "uBE42">>, <<"uBE44", "uBE5E">>,
                    <<"uBE60", "uBE7A">>, <<"uBE7C", "uBE96">>, <<"uBE98", "uBEB2">>, <<"uBEB4", "uBECE">>,
                    <<"uBED0", "uBEEA">>, <<"uBEEC", "uBF06">>, <<"uBF08", "uBF22">>, <<"uBF24", "uBF3E">>,
                    <<"uBF40", "uBF5A">>, <<"uBF5C", "uBF76">>, <<"uBF78", "uBF92">>, <<"uBF94", "uBFAE">>,
                    <<"uBFB0", "uBFCA">>, <<"uBFCC", "uBFE6">>, <<"uBFE8", "uC002">>, <<"uC004", "uC01E">>,
                    <<"uC020", "uC03A">>, <<"uC03C", "uC056">>, <<"uC058", "uC072">>, <<"uC074", "uC08E">>,
                    <<"uC090", "uC0AA">>, <<"uC0AC", "uC0C6">>, <<"uC0C8", "uC0E2">>, <<"uC0E4", "uC0FE">>,
                    <<"uC100", "uC11A">>, <<"uC11C", "uC136">>, <<"uC138", "uC152">>, <<"uC154", "uC16E">>,
                    <<"uC170", "uC18A">>, <<"uC18C", "uC1A6">>, <<"uC1A8", "uC1C2">>, <<"uC1C4", "uC1DE">>,
                    <<"uC1E0", "uC1FA">>, <<"uC1FC", "uC216">>, <<"uC218", "uC232">>, <<"uC234", "uC24E">>,
                    <<"uC250", "uC26A">>, <<"uC26C", "uC286">>, <<"uC288", "uC2A2">>, <<"uC2A4", "uC2BE">>,
                    <<"uC2C0", "uC2DA">>, <<"uC2DC", "uC2F6">>, <<"uC2F8", "uC312">>, <<"uC314", "uC32E">>,
                    <<"uC330", "uC34A">>, <<"uC34C", "uC366">>, <<"uC368", "uC382">>, <<"uC384", "uC39E">>,
                    <<"uC3A0", "uC3BA">>, <<"uC3BC", "uC3D6">>, <<"uC3D8", "uC3F2">>, <<"uC3F4", "uC40E">>,
                    <<"uC410", "uC42A">>, <<"uC42C", "uC446">>, <<"uC448", "uC462">>, <<"uC464", "uC47E">>,
                    <<"uC480", "uC49A">>, <<"uC49C", "uC4B6">>, <<"uC4B8", "uC4D2">>, <<"uC4D4", "uC4EE">>,
                    <<"uC4F0", "uC50A">>, <<"uC50C", "uC526">>, <<"uC528", "uC542">>, <<"uC544", "uC55E">>,
                    <<"uC560", "uC57A">>, <<"uC57C", "uC596">>, <<"uC598", "uC5B2">>, <<"uC5B4", "uC5CE">>,
                    <<"uC5D0", "uC5EA">>, <<"uC5EC", "uC606">>, <<"uC608", "uC622">>, <<"uC624", "uC63E">>,
                    <<"uC640", "uC65A">>, <<"uC65C", "uC676">>, <<"uC678", "uC692">>, <<"uC694", "uC6AE">>,
                    <<"uC6B0", "uC6CA">>, <<"uC6CC", "uC6E6">>, <<"uC6E8", "uC702">>, <<"uC704", "uC71E">>,
                    <<"uC720", "uC73A">>, <<"uC73C", "uC756">>, <<"uC758", "uC772">>, <<"uC774", "uC78E">>,
                    <<"uC790", "uC7AA">>, <<"uC7AC", "uC7C6">>, <<"uC7C8", "uC7E2">>, <<"uC7E4", "uC7FE">>,
                    <<"uC800", "uC81A">>, <<"uC81C", "uC836">>, <<"uC838", "uC852">>, <<"uC854", "uC86E">>,
                    <<"uC870", "uC88A">>, <<"uC88C", "uC8A6">>, <<"uC8A8", "uC8C2">>, <<"uC8C4", "uC8DE">>,
                    <<"uC8E0", "uC8FA">>, <<"uC8FC", "uC916">>, <<"uC918", "uC932">>, <<"uC934", "uC94E">>,
                    <<"uC950", "uC96A">>, <<"uC96C", "uC986">>, <<"uC988", "uC9A2">>, <<"uC9A4", "uC9BE">>,
                    <<"uC9C0", "uC9DA">>, <<"uC9DC", "uC9F6">>, <<"uC9F8", "uCA12">>, <<"uCA14", "uCA2E">>,
                    <<"uCA30", "uCA4A">>, <<"uCA4C", "uCA66">>, <<"uCA68", "uCA82">>, <<"uCA84", "uCA9E">>,
                    <<"uCAA0", "uCABA">>, <<"uCABC", "uCAD6">>, <<"uCAD8", "uCAF2">>, <<"uCAF4", "uCB0E">>,
                    <<"uCB10", "uCB2A">>, <<"uCB2C", "uCB46">>, <<"uCB48", "uCB62">>, <<"uCB64", "uCB7E">>,
                    <<"uCB80", "uCB9A">>, <<"uCB9C", "uCBB6">>, <<"uCBB8", "uCBD2">>, <<"uCBD4", "uCBEE">>,
                    <<"uCBF0", "uCC0A">>, <<"uCC0C", "uCC26">>, <<"uCC28", "uCC42">>, <<"uCC44", "uCC5E">>,
                    <<"uCC60", "uCC7A">>, <<"uCC7C", "uCC96">>, <<"uCC98", "uCCB2">>, <<"uCCB4", "uCCCE">>,
                    <<"uCCD0", "uCCEA">>, <<"uCCEC", "uCD06">>, <<"uCD08", "uCD22">>, <<"uCD24", "uCD3E">>,
                    <<"uCD40", "uCD5A">>, <<"uCD5C", "uCD76">>, <<"uCD78", "uCD92">>, <<"uCD94", "uCDAE">>,
                    <<"uCDB0", "uCDCA">>, <<"uCDCC", "uCDE6">>, <<"uCDE8", "uCE02">>, <<"uCE04", "uCE1E">>,
                    <<"uCE20", "uCE3A">>, <<"uCE3C", "uCE56">>, <<"uCE58", "uCE72">>, <<"uCE74", "uCE8E">>,
                    <<"uCE90", "uCEAA">>, <<"uCEAC", "uCEC6">>, <<"uCEC8", "uCEE2">>, <<"uCEE4", "uCEFE">>,
                    <<"uCF00", "uCF1A">>, <<"uCF1C", "uCF36">>, <<"uCF38", "uCF52">>, <<"uCF54", "uCF6E">>,
                    <<"uCF70", "uCF8A">>, <<"uCF8C", "uCFA6">>, <<"uCFA8", "uCFC2">>, <<"uCFC4", "uCFDE">>,
                    <<"uCFE0", "uCFFA">>, <<"uCFFC", "uD016">>, <<"uD018", "uD032">>, <<"uD034", "uD04E">>,
                    <<"uD050", "uD06A">>, <<"uD06C", "uD086">>, <<"uD088", "uD0A2">>, <<"uD0A4", "uD0BE">>,
                    <<"uD0C0", "uD0DA">>, <<"uD0DC", "uD0F6">>, <<"uD0F8", "uD112">>, <<"uD114", "uD12E">>,
                    <<"uD130", "uD14A">>, <<"uD14C", "uD166">>, <<"uD168", "uD182">>, <<"uD184", "uD19E">>,
                    <<"uD1A0", "uD1BA">>, <<"uD1BC", "uD1D6">>, <<"uD1D8", "uD1F2">>, <<"uD1F4", "uD20E">>,
                    <<"uD210", "uD22A">>, <<"uD22C", "uD246">>, <<"uD248", "uD262">>, <<"uD264", "uD27E">>,
                    <<"uD280", "uD29A">>, <<"uD29C", "uD2B6">>, <<"uD2B8", "uD2D2">>, <<"uD2D4", "uD2EE">>,
                    <<"uD2F0", "uD30A">>, <<"uD30C", "uD326">>, <<"uD328", "uD342">>, <<"uD344", "uD35E">>,
                    <<"uD360", "uD37A">>, <<"uD37C", "uD396">>, <<"uD398", "uD3B2">>, <<"uD3B4", "uD3CE">>,
                    <<"uD3D0", "uD3EA">>, <<"uD3EC", "uD406">>, <<"uD408", "uD422">>, <<"uD424", "uD43E">>,
                    <<"uD440", "uD45A">>, <<"uD45C", "uD476">>, <<"uD478", "uD492">>, <<"uD494", "uD4AE">>,
                    <<"uD4B0", "uD4CA">>, <<"uD4CC", "uD4E6">>, <<"uD4E8", "uD502">>, <<"uD504", "uD51E">>,
                    <<"uD520", "uD53A">>, <<"uD53C", "uD556">>, <<"uD558", "uD572">>, <<"uD574", "uD58E">>,
                    <<"uD590", "uD5AA">>, <<"uD5AC", "uD5C6">>, <<"uD5C8", "uD5E2">>, <<"uD5E4", "uD5FE">>,
                    <<"uD600", "uD61A">>, <<"uD61C", "uD636">>, <<"uD638", "uD652">>, <<"uD654", "uD66E">>,
                    <<"uD670", "uD68A">>, <<"uD68C", "uD6A6">>, <<"uD6A8", "uD6C2">>, <<"uD6C4", "uD6DE">>,
                    <<"uD6E0", "uD6FA">>, <<"uD6FC", "uD716">>, <<"uD718", "uD732">>, <<"uD734", "uD74E">>,
                    <<"uD750", "uD76A">>, <<"uD76C", "uD786">>, <<"uD788", "uD7A2">>},
         u11C2 |-> {<<"uAC00", "uAC1B">>, <<"uAC1C", "uAC37">>, <<"uAC38", "uAC53">>, <<"uAC54", "uAC6F">>,
                    <<"uAC70", "uAC8B">>, <<"uAC8C", "uACA7">>, <<"uACA8", "uACC3">>, <<"uACC4", "uACDF">>,
                    <<"uACE0", "uACFB">>, <<"uACFC", "uAD17">>, <<"uAD18", "uAD33">>, <<"uAD34", "uAD4F">>,
                    <<"uAD50", "uAD6B">>, <<"uAD6C", "uAD87">>, <<"uAD88", "uADA3">>, <<"uADA4", "uADBF">>,
                    <<"uADC0", "uADDB">>, <<"uADDC", "uADF7">>, <<"uADF8", "uAE13">>, <<"uAE14", "uAE2F">>,
                    <<"uAE30", "uAE4B">>, <<"uAE4C", "uAE67">>, <<"uAE68", "uAE83">>, <<"uAE84", "uAE9F">>,
                    <<"uAEA0", "uAEBB">>, <<"uAEBC", "uAED7">>, <<"uAED8", "uAEF3">>, <<"uAEF4", "uAF0F">>,
                    <<"uAF10", "uAF2B">>, <<"uAF2C", "uAF47">>, <<"uAF48", "uAF63">>, <<"uAF64", "uAF7F">>,
                    <<"uAF80", "uAF9B">>, <<"uAF9C", "uAFB7">>, <<"uAFB8", "uAFD3">>, <<"uAFD4", "uAFEF">>,
                    <<"uAFF0", "uB00B">>, <<"uB00C", "uB027">>, <<"uB028", "uB043">>, <<"uB044", "uB05F">>,
                    <<"uB060", "uB07B">>, <<"uB07C", "uB097">>, <<"uB098", "uB0B3">>, <<"uB0B4", "uB0CF">>,
                    <<"uB0D0", "uB0EB">>, <<"uB0EC", "uB107">>, <<"uB108", "uB123">>, <<"uB124", "uB13F">>,
                    <<"uB140", "uB15B">>, <<"uB15C", "uB177">>, <<"uB178", "uB193">>, <<"uB194", "uB1AF">>,
                    <<"uB1B0", "uB1CB">>, <<"uB1CC", "uB1E7">>, <<"uB1E8", "uB203">>, <<"uB204", "uB21F">>,
                    <<"uB220", "uB23B">>, <<"uB23C", "uB257">>, <<"uB258", "uB273">>, <<"uB274", "uB28F">>,
                    <<"uB290", "uB2AB">>, <<"uB2AC", "uB2C7">>, <<"uB2C8", "uB2E3">>, <<"uB2E4", "uB2FF">>,
                    <<"uB300", "uB31B">>, <<"uB31C", "uB337">>, <<"uB338", "uB353">>, <<"uB354", "uB36F">>,
                    <<"uB370", "uB38B">>, <<"uB38C", "uB3A7">>, <<"uB3A8", "uB3C3">>, <<"uB3C4", "uB3DF">>,
                    <<"uB3E0", "uB3FB">>, <<"uB3FC", "uB417">>, <<"uB418", "uB433">>, <<"uB434", "uB44F">>,
                    <<"uB450", "uB46B">>, <<"uB46C", "uB487">>, <<"uB488", "uB4A3">>, <<"uB4A4", "uB4BF">>,
                    <<"uB4C0", "uB4DB">>, <<"uB4DC", "uB4F7">>, <<"uB4F8", "uB513">>, <<"uB514", "uB52F">>,
                    <<"uB530", "uB54B">>, <<"uB54C", "uB567">>, <<"uB568", "uB583">>, <<"uB584", "uB59F">>,
                    <<"uB5A0", "uB5BB">>, <<"uB5BC", "uB5D7">>, <<"uB5D8", "uB5F3">>, <<"uB5F4", "uB60F">>,
                    <<"uB610", "uB62B">>, <<"uB62C", "uB647">>, <<"uB648", "uB663">>, <<"uB664", "uB67F">>,
                    <<"uB680", "uB69B">>, <<"uB69C", "uB6B7">>, <<"uB6B8", "uB6D3">>, <<"uB6D4", "uB6EF">>,
                    <<"uB6F0", "uB70B">>, <<"uB70C", "uB727">>, <<"uB728", "uB743">>, <<"uB744", "uB75F">>,
                    <<"uB760", "uB77B">>, <<"uB77C", "uB797">>, <<"uB798", "uB7B3">>, <<"uB7B4", "uB7CF">>,
                    <<"uB7D0", "uB7EB">>, <<"uB7EC", "uB807">>, <<"uB808", "uB823">>, <<"uB824", "uB83F">>,
                    <<"uB840", "uB85B">>, <<"uB85C", "uB877">>, <<"uB878", "uB893">>, <<"uB894", "uB8AF">>,
                    <<"uB8B0", "uB8CB">>, <<"uB8CC", "uB8E7">>, <<"uB8E8", "uB903">>, <<"uB904", "uB91F">>,
                    <<"uB920", "uB93B">>, <<"uB93C", "uB957">>, <<"uB958", "uB973">>, <<"uB974", "uB98F">>,
                    <<"uB990", "uB9AB">>, <<"uB9AC", "uB9C7">>, <<"uB9C8", "uB9E3">>, <<"uB9E4", "uB9FF">>,
                    <<"uBA00", "uBA1B">>, <<"uBA1C", "uBA37">>, <<"uBA38", "uBA53">>, <<"uBA54", "uBA6F">>,
                    <<"uBA70", "uBA8B">>, <<"uBA8C", "uBAA7">>, <<"uBAA8", "uBAC3">>, <<"uBAC4", "uBADF">>,
                    <<"uBAE0", "uBAFB">>, <<"uBAFC", "uBB17">>, <<"uBB18", "uBB33">>, <<"uBB34", "uBB4F">>,
                    <<"uBB50", "uBB6B">>, <<"uBB6C", "uBB87">>, <<"uBB88", "uBBA3">>, <<"uBBA4", "uBBBF">>,
                    <<"uBBC0", "uBBDB">>, <<"uBBDC", "uBBF7">>, <<"uBBF8", "uBC13">>, <<"uBC14", "uBC2F">>,
                    <<"uBC30", "uBC4B">>, <<"uBC4C", "uBC67">>, <<"uBC68", "uBC83">>, <<"uBC84", "uBC9F">>,
                    <<"uBCA0", "uBCBB">>, <<"uBCBC", "uBCD7">>, <<"uBCD8", "uBCF3">>, <<"uBCF4", "uBD0F">>,
                    <<"uBD10", "uBD2B">>, <<"uBD2C", "uBD47">>, <<"uBD48", "uBD63">>, <<"uBD64", "uBD7F">>,
                    <<"uBD80", "uBD9B">>, <<"uBD9C", "uBDB7">>, <<"uBDB8", "uBDD3">>, <<"uBDD4", "uBDEF">>,
                    <<"uBDF0", "uBE0B">>, <<"uBE0C", "uBE27">>, <<"uBE28", "uBE43">>, <<"uBE44", "uBE5F">>,
                    <<"uBE60", "uBE7B">>, <<"uBE7C", "uBE97">>, <<"uBE98", "uBEB3">>, <<"uBEB4", "uBECF">>,
                    <<"uBED0", "uBEEB">>, <<"uBEEC", "uBF07">>, <<"uBF08", "uBF23">>, <<"uBF24", "uBF3F">>,
                    <<"uBF40", "uBF5B">>, <<"uBF5C", "uBF77">>, <<"uBF78", "uBF93">>, <<"uBF94", "uBFAF">>,
                    <<"uBFB0", "uBFCB">>, <<"uBFCC", "uBFE7">>, <<"uBFE8", "uC003">>, <<"uC004", "uC01F">>,
                    <<"uC020", "uC03B">>, <<"uC03C", "uC057">>, <<"uC058", "uC073">>, <<"uC074", "uC08F">>,
                    <<"uC090", "uC0AB">>, <<"uC0AC", "uC0C7">>, <<"uC0C8", "uC0E3">>, <<"uC0E4", "uC0FF">>,
                    <<"uC100", "uC11B">>, <<"uC11C", "uC137">>, <<"uC138", "uC153">>, <<"uC154", "uC16F">>,
                    <<"uC170", "uC18B">>, <<"uC18C", "uC1A7">>, <<"uC1A8", "uC1C3">>, <<"uC1C4", "uC1DF">>,
                    <<"uC1E0", "uC1FB">>, <<"uC1FC", "uC217">>, <<"uC218", "uC233">>, <<"uC234", "uC24F">>,
                    <<"uC250", "uC26B">>, <<"uC26C", "uC287">>, <<"uC288", "uC2A3">>, <<"uC2A4", "uC2BF">>,
                    <<"uC2C0", "uC2DB">>, <<"uC2DC", "uC2F7">>, <<"uC2F8", "uC313">>, <<"uC314", "uC32F">>,
                    <<"uC330", "uC34B">>, <<"uC34C", "uC367">>, <<"uC368", "uC383">>, <<"uC384", "uC39F">>,
                    <<"uC3A0", "uC3BB">>, <<"uC3BC", "uC3D7">>, <<"uC3D8", "uC3F3">>, <<"uC3F4", "uC40F">>,
                    <<"uC410", "uC42B">>, <<"uC42C", "uC447">>, <<"uC448", "uC463">>, <<"uC464", "uC47F">>,
                    <<"uC480", "uC49B">>, <<"uC49C", "uC4B7">>, <<"uC4B8", "uC4D3">>, <<"uC4D4", "uC4EF">>,
                    <<"uC4F0", "uC50B">>, <<"uC50C", "uC527">>, <<"uC528", "uC543">>, <<"uC544", "uC55F">>,
                    <<"uC560", "uC57B">>, <<"uC57C", "uC597">>, <<"uC598", "uC5B3">>, <<"uC5B4", "uC5CF">>,
                    <<"uC5D0", "uC5EB">>, <<"uC5EC", "uC607">>, <<"uC608", "uC623">>, <<"uC624", "uC63F">>,
                    <<"uC640", "uC65B">>, <<"uC65C", "uC677">>, <<"uC678", "uC693">>, <<"uC694", "uC6AF">>,
                    <<"uC6B0", "uC6CB">>, <<"uC6CC", "uC6E7">>, <<"uC6E8", "uC703">>, <<"uC704", "uC71F">>,
                    <<"uC720", "uC73B">>, <<"uC73C", "uC757">>, <<"uC758", "uC773">>, <<"uC774", "uC78F">>,
                    <<"uC790", "uC7AB">>, <<"uC7AC", "uC7C7">>, <<"uC7C8", "uC7E3">>, <<"uC7E4", "uC7FF">>,
                    <<"uC800", "uC81B">>, <<"uC81C", "uC837">>, <<"uC838", "uC853">>, <<"uC854", "uC86F">>,
                    <<"uC870", "uC88B">>, <<"uC88C", "uC8A7">>, <<"uC8A8", "uC8C3">>, <<"uC8C4", "uC8DF">>,
                    <<"uC8E0", "uC8FB">>, <<"uC8FC", "uC917">>, <<"uC918", "uC933">>, <<"uC934", "uC94F">>,
                    <<"uC950", "uC96B">>, <<"uC96C", "uC987">>, <<"uC988", "uC9A3">>, <<"uC9A4", "uC9BF">>,
                    <<"uC9C0", "uC9DB">>, <<"uC9DC", "uC9F7">>, <<"uC9F8", "uCA13">>, <<"uCA14", "uCA2F">>,
                    <<"uCA30", "uCA4B">>, <<"uCA4C", "uCA67">>, <<"uCA68", "uCA83">>, <<"uCA84", "uCA9F">>,
                    <<"uCAA0", "uCABB">>, <<"uCABC", "uCAD7">>, <<"uCAD8", "uCAF3">>, <<"uCAF4", "uCB0F">>,
                    <<"uCB10", "uCB2B">>, <<"uCB2C", "uCB47">>, <<"uCB48", "uCB63">>, <<"uCB64", "uCB7F">>,
                    <<"uCB80", "uCB9B">>, <<"uCB9C", "uCBB7">>, <<"uCBB8", "uCBD3">>, <<"uCBD4", "uCBEF">>,
                    <<"uCBF0", "uCC0B">>, <<"uCC0C", "uCC27">>, <<"uCC28", "uCC43">>, <<"uCC44", "uCC5F">>,
                    <<"uCC60", "uCC7B">>, <<"uCC7C", "uCC97">>, <<"uCC98", "uCCB3">>, <<"uCCB4", "uCCCF">>,
                    <<"uCCD0", "uCCEB">>, <<"uCCEC", "uCD07">>, <<"uCD08", "uCD23">>, <<"uCD24", "uCD3F">>,
                    <<"uCD40", "uCD5B">>, <<"uCD5C", "uCD77">>, <<"uCD78", "uCD93">>, <<"uCD94", "uCDAF">>,
                    <<"uCDB0", "uCDCB">>, <<"uCDCC", "uCDE7">>, <<"uCDE8", "uCE03">>, <<"uCE04", "uCE1F">>,
                    <<"uCE20", "uCE3B">>, <<"uCE3C", "uCE57">>, <<"uCE58", "uCE73">>, <<"uCE74", "uCE8F">>,
                    <<"uCE90", "uCEAB">>, <<"uCEAC", "uCEC7">>, <<"uCEC8", "uCEE3">>, <<"uCEE4", "uCEFF">>,
                    <<"uCF00", "uCF1B">>, <<"uCF1C", "uCF37">>, <<"uCF38", "uCF53">>, <<"uCF54", "uCF6F">>,
                    <<"uCF70", "uCF8B">>, <<"uCF8C", "uCFA7">>, <<"uCFA8", "uCFC3">>, <<"uCFC4", "uCFDF">>,
                    <<"uCFE0", "uCFFB">>, <<"uCFFC", "uD017">>, <<"uD018", "uD033">>, <<"uD034", "uD04F">>,
                    <<"uD050", "uD06B">>, <<"uD06C", "uD087">>, <<"uD088", "uD0A3">>, <<"uD0A4", "uD0BF">>,
                    <<"uD0C0", "uD0DB">>, <<"uD0DC", "uD0F7">>, <<"uD0F8", "uD113">>, <<"uD114", "uD12F">>,
                    <<"uD130", "uD14B">>, <<"uD14C", "uD167">>, <<"uD168", "uD183">>, <<"uD184", "uD19F">>,
                    <<"uD1A0", "uD1BB">>, <<"uD1BC", "uD1D7">>, <<"uD1D8", "uD1F3">>, <<"uD1F4", "uD20F">>,
                    <<"uD210", "uD22B">>, <<"uD22C", "uD247">>, <<"uD248", "uD263">>, <<"uD264", "uD27F">>,
                    <<"uD280", "uD29B">>, <<"uD29C", "uD2B7">>, <<"uD2B8", "uD2D3">>, <<"uD2D4", "uD2EF">>,
                    <<"uD2F0", "uD30B">>, <<"uD30C", "uD327">>, <<"uD328", "uD343">>, <<"uD344", "uD35F">>,
                    <<"uD360", "uD37B">>, <<"uD37C", "uD397">>, <<"uD398", "uD3B3">>, <<"uD3B4", "uD3CF">>,
                    <<"uD3D0", "uD3EB">>, <<"uD3EC", "uD407">>, <<"uD408", "uD423">>, <<"uD424", "uD43F">>,
                    <<"uD440", "uD45B">>, <<"uD45C", "uD477">>, <<"uD478", "uD493">>, <<"uD494", "uD4AF">>,
                    <<"uD4B0", "uD4CB">>, <<"uD4CC", "uD4E7">>, <<"uD4E8", "uD503">>, <<"uD504", "uD51F">>,
                    <<"uD520", "uD53B">>, <<"uD53C", "uD557">>, <<"uD558", "uD573">>, <<"uD574", "uD58F">>,
                    <<"uD590", "uD5AB">>, <<"uD5AC", "uD5C7">>, <<"uD5C8", "uD5E3">>, <<"uD5E4", "uD5FF">>,
                    <<"uD600", "uD61B">>, <<"uD61C", "uD637">>, <<"uD638", "uD653">>, <<"uD654", "uD66F">>,
                    <<"uD670", "uD68B">>, <<"uD68C", "uD6A7">>, <<"uD6A8", "uD6C3">>, <<"uD6C4", "uD6DF">>,
                    <<"uD6E0", "uD6FB">>, <<"uD6FC", "uD717">>, <<"uD718", "uD733">>, <<"uD734", "uD74F">>,
                    <<"uD750", "uD76B">>, <<"uD76C", "uD787">>, <<"uD788", "uD7A3">>},
         u1B35 |-> {<<"u1B05", "u1B06">>, <<"u1B07", "u1B08">>, <<"u1B09", "u1B0A">>, <<"u1B0B", "u1B0C">>,
                    <<"u1B0D", "u1B0E">>, <<"u1B11", "u1B12">>, <<"u1B3A", "u1B3B">>, <<"u1B3C", "u1B3D">>,
                    <<"u1B3E", "u1B40">>, <<"u1B3F", "u1B41">>, <<"u1B42", "u1B43">>},
         u3099 |-> {<<"u3046", "u3094">>, <<"u304B", "u304C">>, <<"u304D", "u304E">>, <<"u304F", "u3050">>,
                    <<"u3051", "u3052">>, <<"u3053", "u3054">>, <<"u3055", "u3056">>, <<"u3057", "u3058">>,
                    <<"u3059", "u305A">>, <<"u305B", "u305C">>, <<"u305D", "u305E">>, <<"u305F", "u3060">>,
                    <<"u3061", "u3062">>, <<"u3064", "u3065">>, <<"u3066", "u3067">>, <<"u3068", "u3069">>,
                    <<"u306F", "u3070">>, <<"u3072", "u3073">>, <<"u3075", "u3076">>, <<"u3078", "u3079">>,
                    <<"u307B", "u307C">>, <<"u309D", "u309E">>, <<"u30A6", "u30F4">>, <<"u30AB", "u30AC">>,
                    <<"u30AD", "u30AE">>, <<"u30AF", "u30B0">>, <<"u30B1", "u30B2">>, <<"u30B3", "u30B4">>,
                    <<"u30B5", "u30B6">>, <<"u30B7", "u30B8">>, <<"u30B9", "u30BA">>, <<"u30BB", "u30BC">>,
                    <<"u30BD", "u30BE">>, <<"u30BF", "u30C0">>, <<"u30C1", "u30C2">>, <<"u30C4", "u30C5">>,
                    <<"u30C6", "u30C7">>, <<"u30C8", "u30C9">>, <<"u30CF", "u30D0">>, <<"u30D2", "u30D3">>,
                    <<"u30D5", "u30D6">>, <<"u30D8", "u30D9">>, <<"u30DB", "u30DC">>, <<"u30EF", "u30F7">>,
                    <<"u30F0", "u30F8">>, <<"u30F1", "u30F9">>, <<"u30F2", "u30FA">>, <<"u30FD", "u30FE">>},
         u309A |-> {<<"u306F", "u3071">>, <<"u3072", "u3074">>, <<"u3075", "u3077">>, <<"u3078", "u307A">>,
                    <<"u307B", "u307D">>, <<"u30CF", "u30D1">>, <<"u30D2", "u30D4">>, <<"u30D5", "u30D7">>,
                    <<"u30D8", "u30DA">>, <<"u30DB", "u30DD">>},
         u110BA |-> {<<"u11099", "u1109A">>, <<"u1109B", "u1109C">>, <<"u110A5", "u110AB">>},
         u11127 |-> {<<"u11131", "u1112E">>, <<"u11132", "u1112F">>}, u1133E |-> {<<"u11347", "u1134B">>},
         u11357 |-> {<<"u11347", "u1134C">>}, u114B0 |-> {<<"u114B9", "u114BC">>},
         u114BA |-> {<<"u114B9", "u114BB">>}, u114BD |-> {<<"u114B9", "u114BE">>},
         u115AF |-> {<<"u115B8", "u115BA">>, <<"u115B9", "u115BB">>}, u11930 |-> {<<"u11935", "u11938">>}],
     composing |->
        {"u0300", "u0301", "u0302", "u0303", "u0304", "u0306", "u0307", "u0308", "u0309", "u030A", "u030B",
         "u030C", "u030F", "u0311", "u0313", "u0314", "u031B", "u0323", "u0324", "u0325", "u0326", "u0327",
         "u0328", "u032D", "u032E", "u0330", "u0331", "u0338", "u0342", "u0345", "u0653", "u0654", "u0655",
         "u093C", "u09BE", "u09D7", "u0B3E", "u0B56", "u0B57", "u0BBE", "u0BD7", "u0C56", "u0CC2", "u0CD5",
         "u0CD6", "u0D3E", "u0D57", "u0DCA", "u0DCF", "u0DDF", "u102E", "u1161", "u1162", "u1163", "u1164",
         "u1165", "u1166", "u1167", "u1168", "u1169", "u116A", "u116B", "u116C", "u116D", "u116E", "u116F",
         "u1170", "u1171", "u1172", "u1173", "u1174", "u1175", "u11A8", "u11A9", "u11AA", "u11AB", "u11AC",
         "u11AD", "u11AE", "u11AF", "u11B0", "u11B1", "u11B2", "u11B3", "u11B4", "u11B5", "u11B6", "u11B7",
         "u11B8", "u11B9", "u11BA", "u11BB", "u11BC", "u11BD", "u11BE", "u11BF", "u11C0", "u11C1", "u11C2",
         "u1B35", "u3099", "u309A", "u110BA", "u11127", "u1133E", "u11357", "u114B0", "u114BA", "u114BD",
         "u115AF", "u11930"}]

\* str.lower(): the lower case of the characters that have one, the cased letters and the
\* characters a final sigma ignores; re.IGNORECASE: the characters a letter of a pattern matches
CaseData ==
    [lower |->
        [A |-> <<"a">>, B |-> <<"b">>, C |-> <<"c">>, D |-> <<"d">>, E |-> <<"e">>, F |-> <<"f">>,
         G |-> <<"g">>, H |-> <<"h">>, I |-> <<"i">>, J |-> <<"j">>, K |-> <<"k">>, L |-> <<"l">>,
         M |-> <<"m">>, N |-> <<"n">>, O |-> <<"o">>, P |-> <<"p">>, Q |-> <<"q">>, R |-> <<"r">>,
         S |-> <<"s">>, T |-> <<"t">>, U |-> <<"u">>, V |-> <<"v">>, W |-> <<"w">>, X |-> <<"x">>,
         Y |-> <<"y">>, Z |-> <<"z">>, u00C0 |-> <<"u00E0">>, u00C1 |-> <<"u00E1">>, u00C2 |-> <<"u00E2">>,
         u00C3 |-> <<"u00E3">>, u00C4 |-> <<"u00E4">>, u00C5 |-> <<"u00E5">>, u00C6 |-> <<"u00E6">>,
         u00C7 |-> <<"u00E7">>, u00C8 |-> <<"u00E8">>, u00C9 |-> <<"u00E9">>, u00CA |-> <<"u00EA">>,
         u00CB |-> <<"u00EB">>, u00CC |-> <<"u00EC">>, u00CD |-> <<"u00ED">>, u00CE |-> <<"u00EE">>,
         u00CF |-> <<"u00EF">>, u00D0 |-> <<"u00F0">>, u00D1 |-> <<"u00F1">>, u00D2 |-> <<"u00F2">>,
         u00D3 |-> <<"u00F3">>, u00D4 |-> <<"u00F4">>, u00D5 |-> <<"u00F5">>, u00D6 |-> <<"u00F6">>,
         u00D8 |-> <<"u00F8">>, u00D9 |-> <<"u00F9">>, u00DA |-> <<"u00FA">>, u00DB |-> <<"u00FB">>,
         u00DC |-> <<"u00FC">>, u00DD |-> <<"u00FD">>, u00DE |-> <<"u00FE">>, u0100 |-> <<"u0101">>,
         u0102 |-> <<"u0103">>, u0104 |-> <<"u0105">>, u0106 |-> <<"u0107">>, u0108 |-> <<"u0109">>,
         u010A |-> <<"u010B">>, u010C |-> <<"u010D">>, u010E |-> <<"u010F">>, u0110 |-> <<"u0111">>,
         u0112 |-> <<"u0113">>, u0114 |-> <<"u0115">>, u0116 |-> <<"u0117">>, u0118 |-> <<"u0119">>,
         u011A |-> <<"u011B">>, u011C |-> <<"u011D">>, u011E |-> <<"u011F">>, u0120 |-> <<"u0121">>,
         u0122 |-> <<"u0123">>, u0124 |-> <<"u0125">>, u0126 |-> <<"u0127">>, u0128 |-> <<"u0129">>,
         u012A |-> <<"u012B">>, u012C |-> <<"u012D">>, u012E |-> <<"u012F">>, u0130 |-> <<"i", "u0307">>,
         u0132 |-> <<"u0133">>, u0134 |-> <<"u0135">>, u0136 |-> <<"u0137">>, u0139 |-> <<"u013A">>,
         u013B |-> <<"u013C">>, u013D |-> <<"u013E">>, u013F |-> <<"u0140">>, u0141 |-> <<"u0142">>,
         u0143 |-> <<"u0144">>, u0145 |-> <<"u0146">>, u0147 |-> <<"u0148">>, u014A |-> <<"u014B">>,
         u014C |-> <<"u014D">>, u014E |-> <<"u014F">>, u0150 |-> <<"u0151">>, u0152 |-> <<"u0153">>,
         u0154 |-> <<"u0155">>, u0156 |-> <<"u0157">>, u0158 |-> <<"u0159">>, u015A |-> <<"u015B">>,
         u015C |-> <<"u015D">>, u015E |-> <<"u015F">>, u0160 |-> <<"u0161">>, u0162 |-> <<"u0163">>,
         u0164 |-> <<"u0165">>, u0166 |-> <<"u0167">>, u0168 |-> <<"u0169">>, u016A |-> <<"u016B">>,
         u016C |-> <<"u016D">>, u016E |-> <<"u016F">>, u0170 |-> <<"u0171">>, u0172 |-> <<"u0173">>,
         u0174 |-> <<"u0175">>, u0176 |-> <<"u0177">>, u0178 |-> <<"u00FF">>, u0179 |-> <<"u017A">>,
         u017B |-> <<"u017C">>, u017D |-> <<"u017E">>, u0181 |-> <<"u0253">>, u0182 |-> <<"u0183">>,
         u0184 |-> <<"u0185">>, u0186 |-> <<"u0254">>, u0187 |-> <<"u0188">>, u0189 |-> <<"u0256">>,
         u018A |-> <<"u0257">>, u018B |-> <<"u018C">>, u018E |-> <<"u01DD">>, u018F |-> <<"u0259">>,
         u0190 |-> <<"u025B">>, u0191 |-> <<"u0192">>, u0193 |-> <<"u0260">>, u0194 |-> <<"u0263">>,
         u0196 |-> <<"u0269">>, u0197 |-> <<"u0268">>, u0198 |-> <<"u0199">>, u019C |-> <<"u026F">>,
         u019D |-> <<"u0272">>, u019F |-> <<"u0275">>, u01A0 |-> <<"u01A1">>, u01A2 |-> <<"u01A3">>,
         u01A4 |-> <<"u01A5">>, u01A6 |-> <<"u0280">>, u01A7 |-> <<"u01A8">>, u01A9 |-> <<"u0283">>,
         u01AC |-> <<"u01AD">>, u01AE |-> <<"u0288">>, u01AF |-> <<"u01B0">>, u01B1 |-> <<"u028A">>,
         u01B2 |-> <<"u028B">>, u01B3 |-> <<"u01B4">>, u01B5 |-> <<"u01B6">>, u01B7 |-> <<"u0292">>,
         u01B8 |-> <<"u01B9">>, u01BC |-> <<"u01BD">>, u01C4 |-> <<"u01C6">>, u01C5 |-> <<"u01C6">>,
         u01C7 |-> <<"u01C9">>, u01C8 |-> <<"u01C9">>, u01CA |-> <<"u01CC">>, u01CB |-> <<"u01CC">>,
         u01CD |-> <<"u01CE">>, u01CF |-> <<"u01D0">>, u01D1 |-> <<"u01D2">>, u01D3 |-> <<"u01D4">>,
         u01D5 |-> <<"u01D6">>, u01D7 |-> <<"u01D8">>, u01D9 |-> <<"u01DA">>, u01DB |-> <<"u01DC">>,
         u01DE |-> <<"u01DF">>, u01E0 |-> <<"u01E1">>, u01E2 |-> <<"u01E3">>, u01E4 |-> <<"u01E5">>,
         u01E6 |-> <<"u01E7">>, u01E8 |-> <<"u01E9">>, u01EA |-> <<"u01EB">>, u01EC |-> <<"u01ED">>,
         u01EE |-> <<"u01EF">>, u01F1 |-> <<"u01F3">>, u01F2 |-> <<"u01F3">>, u01F4 |-> <<"u01F5">>,
         u01F6 |-> <<"u0195">>, u01F7 |-> <<"u01BF">>, u01F8 |-> <<"u01F9">>, u01FA |-> <<"u01FB">>,
         u01FC |-> <<"u01FD">>, u01FE |-> <<"u01FF">>, u0200 |-> <<"u0201">>, u0202 |-> <<"u0203">>,
         u0204 |-> <<"u0205">>, u0206 |-> <<"u0207">>, u0208 |-> <<"u0209">>, u020A |-> <<"u020B">>,
         u020C |-> <<"u020D">>, u020E |-> <<"u020F">>, u0210 |-> <<"u0211">>, u0212 |-> <<"u0213">>,
         u0214 |-> <<"u0215">>, u0216 |-> <<"u0217">>, u0218 |-> <<"u0219">>, u021A |-> <<"u021B">>,
         u021C |-> <<"u021D">>, u021E |-> <<"u021F">>, u0220 |-> <<"u019E">>, u0222 |-> <<"u0223">>,
         u0224 |-> <<"u0225">>, u0226 |-> <<"u0227">>, u0228 |-> <<"u0229">>, u022A |-> <<"u022B">>,
         u022C |-> <<"u022D">>, u022E |-> <<"u022F">>, u0230 |-> <<"u0231">>, u0232 |-> <<"u0233">>,
         u023A |-> <<"u2C65">>, u023B |-> <<"u023C">>, u023D |-> <<"u019A">>, u023E |-> <<"u2C66">>,
         u0241 |-> <<"u0242">>, u0243 |-> <<"u0180">>, u0244 |-> <<"u0289">>, u0245 |-> <<"u028C">>,
         u0246 |-> <<"u0247">>, u0248 |-> <<"u0249">>, u024A |-> <<"u024B">>, u024C |-> <<"u024D">>,
         u024E |-> <<"u024F">>, u0370 |-> <<"u0371">>, u0372 |-> <<"u0373">>, u0376 |-> <<"u0377">>,
         u037F |-> <<"u03F3">>, u0386 |-> <<"u03AC">>, u0388 |-> <<"u03AD">>, u0389 |-> <<"u03AE">>,
         u038A |-> <<"u03AF">>, u038C |-> <<"u03CC">>, u038E |-> <<"u03CD">>, u038F |-> <<"u03CE">>,
         u0391 |-> <<"u03B1">>, u0392 |-> <<"u03B2">>, u0393 |-> <<"u03B3">>, u0394 |-> <<"u03B4">>,
         u0395 |-> <<"u03B5">>, u0396 |-> <<"u03B6">>, u0397 |-> <<"u03B7">>, u0398 |-> <<"u03B8">>,
         u0399 |-> <<"u03B9">>, u039A |-> <<"u03BA">>, u039B |-> <<"u03BB">>, u039C |-> <<"u03BC">>,
         u039D |-> <<"u03BD">>, u039E |-> <<"u03BE">>, u039F |-> <<"u03BF">>, u03A0 |-> <<"u03C0">>,
         u03A1 |-> <<"u03C1">>, u03A3 |-> <<"u03C3">>, u03A4 |-> <<"u03C4">>, u03A5 |-> <<"u03C5">>,
         u03A6 |-> <<"u03C6">>, u03A7 |-> <<"u03C7">>, u03A8 |-> <<"u03C8">>, u03A9 |-> <<"u03C9">>,
         u03AA |-> <<"u03CA">>, u03AB |-> <<"u03CB">>, u03CF |-> <<"u03D7">>, u03D8 |-> <<"u03D9">>,
         u03DA |-> <<"u03DB">>, u03DC |-> <<"u03DD">>, u03DE |-> <<"u03DF">>, u03E0 |-> <<"u03E1">>,
         u03E2 |-> <<"u03E3">>, u03E4 |-> <<"u03E5">>, u03E6 |-> <<"u03E7">>, u03E8 |-> <<"u03E9">>,
         u03EA |-> <<"u03EB">>, u03EC |-> <<"u03ED">>, u03EE |-> <<"u03EF">>, u03F4 |-> <<"u03B8">>,
         u03F7 |-> <<"u03F8">>, u03F9 |-> <<"u03F2">>, u03FA |-> <<"u03FB">>, u03FD |-> <<"u037B">>,
         u03FE |-> <<"u037C">>, u03FF |-> <<"u037D">>, u0400 |-> <<"u0450">>, u0401 |-> <<"u0451">>,
         u0402 |-> <<"u0452">>, u0403 |-> <<"u0453">>, u0404 |-> <<"u0454">>, u0405 |-> <<"u0455">>,
         u0406 |-> <<"u0456">>, u0407 |-> <<"u0457">>, u0408 |-> <<"u0458">>, u0409 |-> <<"u0459">>,
         u040A |-> <<"u045A">>, u040B |-> <<"u045B">>, u040C |-> <<"u045C">>, u040D |-> <<"u045D">>,
         u040E |-> <<"u045E">>, u040F |-> <<"u045F">>, u0410 |-> <<"u0430">>, u0411 |-> <<"u0431">>,
         u0412 |-> <<"u0432">>, u0413 |-> <<"u0433">>, u0414 |-> <<"u0434">>, u0415 |-> <<"u0435">>,
         u0416 |-> <<"u0436">>, u0417 |-> <<"u0437">>, u0418 |-> <<"u0438">>, u0419 |-> <<"u0439">>,
         u041A |-> <<"u043A">>, u041B |-> <<"u043B">>, u041C |-> <<"u043C">>, u041D |-> <<"u043D">>,
         u041E |-> <<"u043E">>, u041F |-> <<"u043F">>, u0420 |-> <<"u0440">>, u0421 |-> <<"u0441">>,
         u0422 |-> <<"u0442">>, u0423 |-> <<"u0443">>, u0424 |-> <<"u0444">>, u0425 |-> <<"u0445">>,
         u0426 |-> <<"u0446">>, u0427 |-> <<"u0447">>, u0428 |-> <<"u0448">>, u0429 |-> <<"u0449">>,
         u042A |-> <<"u044A">>, u042B |-> <<"u044B">>, u042C |-> <<"u044C">>, u042D |-> <<"u044D">>,
         u042E |-> <<"u044E">>, u042F |-> <<"u044F">>, u0460 |-> <<"u0461">>, u0462 |-> <<"u0463">>,
         u0464 |-> <<"u0465">>, u0466 |-> <<"u0467">>, u0468 |-> <<"u0469">>, u046A |-> <<"u046B">>,
         u046C |-> <<"u046D">>, u046E |-> <<"u046F">>, u0470 |-> <<"u0471">>, u0472 |-> <<"u0473">>,
         u0474 |-> <<"u0475">>, u0476 |-> <<"u0477">>, u0478 |-> <<"u0479">>, u047A |-> <<"u047B">>,
         u047C |-> <<"u047D">>, u047E |-> <<"u047F">>, u0480 |-> <<"u0481">>, u048A |-> <<"u048B">>,
         u048C |-> <<"u048D">>, u048E |-> <<"u048F">>, u0490 |-> <<"u0491">>, u0492 |-> <<"u0493">>,
         u0494 |-> <<"u0495">>, u0496 |-> <<"u0497">>, u0498 |-> <<"u0499">>, u049A |-> <<"u049B">>,
         u049C |-> <<"u049D">>, u049E |-> <<"u049F">>, u04A0 |-> <<"u04A1">>, u04A2 |-> <<"u04A3">>,
         u04A4 |-> <<"u04A5">>, u04A6 |-> <<"u04A7">>, u04A8 |-> <<"u04A9">>, u04AA |-> <<"u04AB">>,
         u04AC |-> <<"u04AD">>, u04AE |-> <<"u04AF">>, u04B0 |-> <<"u04B1">>, u04B2 |-> <<"u04B3">>,
         u04B4 |-> <<"u04B5">>, u04B6 |-> <<"u04B7">>, u04B8 |-> <<"u04B9">>, u04BA |-> <<"u04BB">>,
         u04BC |-> <<"u04BD">>, u04BE |-> <<"u04BF">>, u04C0 |-> <<"u04CF">>, u04C1 |-> <<"u04C2">>,
         u04C3 |-> <<"u04C4">>, u04C5 |-> <<"u04C6">>, u04C7 |-> <<"u04C8">>, u04C9 |-> <<"u04CA">>,
         u04CB |-> <<"u04CC">>, u04CD |-> <<"u04CE">>, u04D0 |-> <<"u04D1">>, u04D2 |-> <<"u04D3">>,
         u04D4 |-> <<"u04D5">>, u04D6 |-> <<"u04D7">>, u04D8 |-> <<"u04D9">>, u04DA |-> <<"u04DB">>,
         u04DC |-> <<"u04DD">>, u04DE |-> <<"u04DF">>, u04E0 |-> <<"u04E1">>, u04E2 |-> <<"u04E3">>,
         u04E4 |-> <<"u04E5">>, u04E6 |-> <<"u04E7">>, u04E8 |-> <<"u04E9">>, u04EA |-> <<"u04EB">>,
         u04EC |-> <<"u04ED">>, u04EE |-> <<"u04EF">>, u04F0 |-> <<"u04F1">>, u04F2 |-> <<"u04F3">>,
         u04F4 |-> <<"u04F5">>, u04F6 |-> <<"u04F7">>, u04F8 |-> <<"u04F9">>, u04FA |-> <<"u04FB">>,
         u04FC |-> <<"u04FD">>, u04FE |-> <<"u04FF">>, u0500 |-> <<"u0501">>, u0502 |-> <<"u0503">>,
         u0504 |-> <<"u0505">>, u0506 |-> <<"u0507">>, u0508 |-> <<"u0509">>, u050A |-> <<"u050B">>,
         u050C |-> <<"u050D">>, u050E |-> <<"u050F">>, u0510 |-> <<"u0511">>, u0512 |-> <<"u0513">>,
         u0514 |-> <<"u0515">>, u0516 |-> <<"u0517">>, u0518 |-> <<"u0519">>, u051A |-> <<"u051B">>,
         u051C |-> <<"u051D">>, u051E |-> <<"u051F">>, u0520 |-> <<"u0521">>, u0522 |-> <<"u0523">>,
         u0524 |-> <<"u0525">>, u0526 |-> <<"u0527">>, u0528 |-> <<"u0529">>, u052A |-> <<"u052B">>,
         u052C |-> <<"u052D">>, u052E |-> <<"u052F">>, u0531 |-> <<"u0561">>, u0532 |-> <<"u0562">>,
         u0533 |-> <<"u0563">>, u0534 |-> <<"u0564">>, u0535 |-> <<"u0565">>, u0536 |-> <<"u0566">>,
         u0537 |-> <<"u0567">>, u0538 |-> <<"u0568">>, u0539 |-> <<"u0569">>, u053A |-> <<"u056A">>,
         u053B |-> <<"u056B">>, u053C |-> <<"u056C">>, u053D |-> <<"u056D">>, u053E |-> <<"u056E">>,
         u053F |-> <<"u056F">>, u0540 |-> <<"u0570">>, u0541 |-> <<"u0571">>, u0542 |-> <<"u0572">>,
         u0543 |-> <<"u0573">>, u0544 |-> <<"u0574">>, u0545 |-> <<"u0575">>, u0546 |-> <<"u0576">>,
         u0547 |-> <<"u0577">>, u0548 |-> <<"u0578">>, u0549 |-> <<"u0579">>, u054A |-> <<"u057A">>,
         u054B |-> <<"u057B">>, u054C |-> <<"u057C">>, u054D |-> <<"u057D">>, u054E |-> <<"u057E">>,
         u054F |-> <<"u057F">>, u0550 |-> <<"u0580">>, u0551 |-> <<"u0581">>, u0552 |-> <<"u0582">>,
         u0553 |-> <<"u0583">>, u0554 |-> <<"u0584">>, u0555 |-> <<"u0585">>, u0556 |-> <<"u0586">>,
         u10A0 |-> <<"u2D00">>, u10A1 |-> <<"u2D01">>, u10A2 |-> <<"u2D02">>, u10A3 |-> <<"u2D03">>,
         u10A4 |-> <<"u2D04">>, u10A5 |-> <<"u2D05">>, u10A6 |-> <<"u2D06">>, u10A7 |-> <<"u2D07">>,
         u10A8 |-> <<"u2D08">>, u10A9 |-> <<"u2D09">>, u10AA |-> <<"u2D0A">>, u10AB |-> <<"u2D0B">>,
         u10AC |-> <<"u2D0C">>, u10AD |-> <<"u2D0D">>, u10AE |-> <<"u2D0E">>, u10AF |-> <<"u2D0F">>,
         u10B0 |-> <<"u2D10">>, u10B1 |-> <<"u2D11">>, u10B2 |-> <<"u2D12">>, u10B3 |-> <<"u2D13">>,
         u10B4 |-> <<"u2D14">>, u10B5 |-> <<"u2D15">>, u10B6 |-> <<"u2D16">>, u10B7 |-> <<"u2D17">>,
         u10B8 |-> <<"u2D18">>, u10B9 |-> <<"u2D19">>, u10BA |-> <<"u2D1A">>, u10BB |-> <<"u2D1B">>,
         u10BC |-> <<"u2D1C">>, u10BD |-> <<"u2D1D">>, u10BE |-> <<"u2D1E">>, u10BF |-> <<"u2D1F">>,
         u10C0 |-> <<"u2D20">>, u10C1 |-> <<"u2D21">>, u10C2 |-> <<"u2D22">>, u10C3 |-> <<"u2D23">>,
         u10C4 |-> <<"u2D24">>, u10C5 |-> <<"u2D25">>, u10C7 |-> <<"u2D27">>, u10CD |-> <<"u2D2D">>,
         u13A0 |-> <<"uAB70">>, u13A1 |-> <<"uAB71">>, u13A2 |-> <<"uAB72">>, u13A3 |-> <<"uAB73">>,
         u13A4 |-> <<"uAB74">>, u13A5 |-> <<"uAB75">>, u13A6 |-> <<"uAB76">>, u13A7 |-> <<"uAB77">>,
         u13A8 |-> <<"uAB78">>, u13A9 |-> <<"uAB79">>, u13AA |-> <<"uAB7A">>, u13AB |-> <<"uAB7B">>,
         u13AC |-> <<"uAB7C">>, u13AD |-> <<"uAB7D">>, u13AE |-> <<"uAB7E">>, u13AF |-> <<"uAB7F">>,
         u13B0 |-> <<"uAB80">>, u13B1 |-> <<"uAB81">>, u13B2 |-> <<"uAB82">>, u13B3 |-> <<"uAB83">>,
         u13B4 |-> <<"uAB84">>, u13B5 |-> <<"uAB85">>, u13B6 |-> <<"uAB86">>, u13B7 |-> <<"uAB87">>,
         u13B8 |-> <<"uAB88">>, u13B9 |-> <<"uAB89">>, u13BA |-> <<"uAB8A">>, u13BB |-> <<"uAB8B">>,
         u13BC |-> <<"uAB8C">>, u13BD |-> <<"uAB8D">>, u13BE |-> <<"uAB8E">>, u13BF |-> <<"uAB8F">>,
         u13C0 |-> <<"uAB90">>, u13C1 |-> <<"uAB91">>, u13C2 |-> <<"uAB92">>, u13C3 |-> <<"uAB93">>,
         u13C4 |-> <<"uAB94">>, u13C5 |-> <<"uAB95">>, u13C6 |-> <<"uAB96">>, u13C7 |-> <<"uAB97">>,
         u13C8 |-> <<"uAB98">>, u13C9 |-> <<"uAB99">>, u13CA |-> <<"uAB9A">>, u13CB |-> <<"uAB9B">>,
         u13CC |-> <<"uAB9C">>, u13CD |-> <<"uAB9D">>, u13CE |-> <<"uAB9E">>, u13CF |-> <<"uAB9F">>,
         u13D0 |-> <<"uABA0">>, u13D1 |-> <<"uABA1">>, u13D2 |-> <<"uABA2">>, u13D3 |-> <<"uABA3">>,
         u13D4 |-> <<"uABA4">>, u13D5 |-> <<"uABA5">>, u13D6 |-> <<"uABA6">>, u13D7 |-> <<"uABA7">>,
         u13D8 |-> <<"uABA8">>, u13D9 |-> <<"uABA9">>, u13DA |-> <<"uABAA">>, u13DB |-> <<"uABAB">>,
         u13DC |-> <<"uABAC">>, u13DD |-> <<"uABAD">>, u13DE |-> <<"uABAE">>, u13DF |-> <<"uABAF">>,
         u13E0 |-> <<"uABB0">>, u13E1 |-> <<"uABB1">>, u13E2 |-> <<"uABB2">>, u13E3 |-> <<"uABB3">>,
         u13E4 |-> <<"uABB4">>, u13E5 |-> <<"uABB5">>, u13E6 |-> <<"uABB6">>, u13E7 |-> <<"uABB7">>,
         u13E8 |-> <<"uABB8">>, u13E9 |-> <<"uABB9">>, u13EA |-> <<"uABBA">>, u13EB |-> <<"uABBB">>,
         u13EC |-> <<"uABBC">>, u13ED |-> <<"uABBD">>, u13EE |-> <<"uABBE">>, u13EF |-> <<"uABBF">>,
         u13F0 |-> <<"u13F8">>, u13F1 |-> <<"u13F9">>, u13F2 |-> <<"u13FA">>, u13F3 |-> <<"u13FB">>,
         u13F4 |-> <<"u13FC">>, u13F5 |-> <<"u13FD">>, u1C90 |-> <<"u10D0">>, u1C91 |-> <<"u10D1">>,
         u1C92 |-> <<"u10D2">>, u1C93 |-> <<"u10D3">>, u1C94 |-> <<"u10D4">>, u1C95 |-> <<"u10D5">>,
         u1C96 |-> <<"u10D6">>, u1C97 |-> <<"u10D7">>, u1C98 |-> <<"u10D8">>, u1C99 |-> <<"u10D9">>,
         u1C9A |-> <<"u10DA">>, u1C9B |-> <<"u10DB">>, u1C9C |-> <<"u10DC">>, u1C9D |-> <<"u10DD">>,
         u1C9E |-> <<"u10DE">>, u1C9F |-> <<"u10DF">>, u1CA0 |-> <<"u10E0">>, u1CA1 |-> <<"u10E1">>,
         u1CA2 |-> <<"u10E2">>, u1CA3 |-> <<"u10E3">>, u1CA4 |-> <<"u10E4">>, u1CA5 |-> <<"u10E5">>,
         u1CA6 |-> <<"u10E6">>, u1CA7 |-> <<"u10E7">>, u1CA8 |-> <<"u10E8">>, u1CA9 |-> <<"u10E9">>,
         u1CAA |-> <<"u10EA">>, u1CAB |-> <<"u10EB">>, u1CAC |-> <<"u10EC">>, u1CAD |-> <<"u10ED">>,
         u1CAE |-> <<"u10EE">>, u1CAF |-> <<"u10EF">>, u1CB0 |-> <<"u10F0">>, u1CB1 |-> <<"u10F1">>,
         u1CB2 |-> <<"u10F2">>, u1CB3 |-> <<"u10F3">>, u1CB4 |-> <<"u10F4">>, u1CB5 |-> <<"u10F5">>,
         u1CB6 |-> <<"u10F6">>, u1CB7 |-> <<"u10F7">>, u1CB8 |-> <<"u10F8">>, u1CB9 |-> <<"u10F9">>,
         u1CBA |-> <<"u10FA">>, u1CBD |-> <<"u10FD">>, u1CBE |-> <<"u10FE">>, u1CBF |-> <<"u10FF">>,
         u1E00 |-> <<"u1E01">>, u1E02 |-> <<"u1E03">>, u1E04 |-> <<"u1E05">>, u1E06 |-> <<"u1E07">>,
         u1E08 |-> <<"u1E09">>, u1E0A |-> <<"u1E0B">>, u1E0C |-> <<"u1E0D">>, u1E0E |-> <<"u1E0F">>,
         u1E10 |-> <<"u1E11">>, u1E12 |-> <<"u1E13">>, u1E14 |-> <<"u1E15">>, u1E16 |-> <<"u1E17">>,
         u1E18 |-> <<"u1E19">>, u1E1A |-> <<"u1E1B">>, u1E1C |-> <<"u1E1D">>, u1E1E |-> <<"u1E1F">>,
         u1E20 |-> <<"u1E21">>, u1E22 |-> <<"u1E23">>, u1E24 |-> <<"u1E25">>, u1E26 |-> <<"u1E27">>,
         u1E28 |-> <<"u1E29">>, u1E2A |-> <<"u1E2B">>, u1E2C |-> <<"u1E2D">>, u1E2E |-> <<"u1E2F">>,
         u1E30 |-> <<"u1E31">>, u1E32 |-> <<"u1E33">>, u1E34 |-> <<"u1E35">>, u1E36 |-> <<"u1E37">>,
         u1E38 |-> <<"u1E39">>, u1E3A |-> <<"u1E3B">>, u1E3C |-> <<"u1E3D">>, u1E3E |-> <<"u1E3F">>,
         u1E40 |-> <<"u1E41">>, u1E42 |-> <<"u1E43">>, u1E44 |-> <<"u1E45">>, u1E46 |-> <<"u1E47">>,
         u1E48 |-> <<"u1E49">>, u1E4A |-> <<"u1E4B">>, u1E4C |-> <<"u1E4D">>, u1E4E |-> <<"u1E4F">>,
         u1E50 |-> <<"u1E51">>, u1E52 |-> <<"u1E53">>, u1E54 |-> <<"u1E55">>, u1E56 |-> <<"u1E57">>,
         u1E58 |-> <<"u1E59">>, u1E5A |-> <<"u1E5B">>, u1E5C |-> <<"u1E5D">>, u1E5E |-> <<"u1E5F">>,
         u1E60 |-> <<"u1E61">>, u1E62 |-> <<"u1E63">>, u1E64 |-> <<"u1E65">>, u1E66 |-> <<"u1E67">>,
         u1E68 |-> <<"u1E69">>, u1E6A |-> <<"u1E6B">>, u1E6C |-> <<"u1E6D">>, u1E6E |-> <<"u1E6F">>,
         u1E70 |-> <<"u1E71">>, u1E72 |-> <<"u1E73">>, u1E74 |-> <<"u1E75">>, u1E76 |-> <<"u1E77">>,
         u1E78 |-> <<"u1E79">>, u1E7A |-> <<"u1E7B">>, u1E7C |-> <<"u1E7D">>, u1E7E |-> <<"u1E7F">>,
         u1E80 |-> <<"u1E81">>, u1E82 |-> <<"u1E83">>, u1E84 |-> <<"u1E85">>, u1E86 |-> <<"u1E87">>,
         u1E88 |-> <<"u1E89">>, u1E8A |-> <<"u1E8B">>, u1E8C |-> <<"u1E8D">>, u1E8E |-> <<"u1E8F">>,
         u1E90 |-> <<"u1E91">>, u1E92 |-> <<"u1E93">>, u1E94 |-> <<"u1E95">>, u1E9E |-> <<"u00DF">>,
         u1EA0 |-> <<"u1EA1">>, u1EA2 |-> <<"u1EA3">>, u1EA4 |-> <<"u1EA5">>, u1EA6 |-> <<"u1EA7">>,
         u1EA8 |-> <<"u1EA9">>, u1EAA |-> <<"u1EAB">>, u1EAC |-> <<"u1EAD">>, u1EAE |-> <<"u1EAF">>,
         u1EB0 |-> <<"u1EB1">>, u1EB2 |-> <<"u1EB3">>, u1EB4 |-> <<"u1EB5">>, u1EB6 |-> <<"u1EB7">>,
         u1EB8 |-> <<"u1EB9">>, u1EBA |-> <<"u1EBB">>, u1EBC |-> <<"u1EBD">>, u1EBE |-> <<"u1EBF">>,
         u1EC0 |-> <<"u1EC1">>, u1EC2 |-> <<"u1EC3">>, u1EC4 |-> <<"u1EC5">>, u1EC6 |-> <<"u1EC7">>,
         u1EC8 |-> <<"u1EC9">>, u1ECA |-> <<"u1ECB">>, u1ECC |-> <<"u1ECD">>, u1ECE |-> <<"u1ECF">>,
         u1ED0 |-> <<"u1ED1">>, u1ED2 |-> <<"u1ED3">>, u1ED4 |-> <<"u1ED5">>, u1ED6 |-> <<"u1ED7">>,
         u1ED8 |-> <<"u1ED9">>, u1EDA |-> <<"u1EDB">>, u1EDC |-> <<"u1EDD">>, u1EDE |-> <<"u1EDF">>,
         u1EE0 |-> <<"u1EE1">>, u1EE2 |-> <<"u1EE3">>, u1EE4 |-> <<"u1EE5">>, u1EE6 |-> <<"u1EE7">>,
         u1EE8 |-> <<"u1EE9">>, u1EEA |-> <<"u1EEB">>, u1EEC |-> <<"u1EED">>, u1EEE |-> <<"u1EEF">>,
         u1EF0 |-> <<"u1EF1">>, u1EF2 |-> <<"u1EF3">>, u1EF4 |-> <<"u1EF5">>, u1EF6 |-> <<"u1EF7">>,
         u1EF8 |-> <<"u1EF9">>, u1EFA |-> <<"u1EFB">>, u1EFC |-> <<"u1EFD">>, u1EFE |-> <<"u1EFF">>,
         u1F08 |-> <<"u1F00">>, u1F09 |-> <<"u1F01">>, u1F0A |-> <<"u1F02">>, u1F0B |-> <<"u1F03">>,
         u1F0C |-> <<"u1F04">>, u1F0D |-> <<"u1F05">>, u1F0E |-> <<"u1F06">>, u1F0F |-> <<"u1F07">>,
         u1F18 |-> <<"u1F10">>, u1F19 |-> <<"u1F11">>, u1F1A |-> <<"u1F12">>, u1F1B |-> <<"u1F13">>,
         u1F1C |-> <<"u1F14">>, u1F1D |-> <<"u1F15">>, u1F28 |-> <<"u1F20">>, u1F29 |-> <<"u1F21">>,
         u1F2A |-> <<"u1F22">>, u1F2B |-> <<"u1F23">>, u1F2C |-> <<"u1F24">>, u1F2D |-> <<"u1F25">>,
         u1F2E |-> <<"u1F26">>, u1F2F |-> <<"u1F27">>, u1F38 |-> <<"u1F30">>, u1F39 |-> <<"u1F31">>,
         u1F3A |-> <<"u1F32">>, u1F3B |-> <<"u1F33">>, u1F3C |-> <<"u1F34">>, u1F3D |-> <<"u1F35">>,
         u1F3E |-> <<"u1F36">>, u1F3F |-> <<"u1F37">>, u1F48 |-> <<"u1F40">>, u1F49 |-> <<"u1F41">>,
         u1F4A |-> <<"u1F42">>, u1F4B |-> <<"u1F43">>, u1F4C |-> <<"u1F44">>, u1F4D |-> <<"u1F45">>,
         u1F59 |-> <<"u1F51">>, u1F5B |-> <<"u1F53">>, u1F5D |-> <<"u1F55">>, u1F5F |-> <<"u1F57">>,
         u1F68 |-> <<"u1F60">>, u1F69 |-> <<"u1F61">>, u1F6A |-> <<"u1F62">>, u1F6B |-> <<"u1F63">>,
         u1F6C |-> <<"u1F64">>, u1F6D |-> <<"u1F65">>, u1F6E |-> <<"u1F66">>, u1F6F |-> <<"u1F67">>,
         u1F88 |-> <<"u1F80">>, u1F89 |-> <<"u1F81">>, u1F8A |-> <<"u1F82">>, u1F8B |-> <<"u1F83">>,
         u1F8C |-> <<"u1F84">>, u1F8D |-> <<"u1F85">>, u1F8E |-> <<"u1F86">>, u1F8F |-> <<"u1F87">>,
         u1F98 |-> <<"u1F90">>, u1F99 |-> <<"u1F91">>, u1F9A |-> <<"u1F92">>, u1F9B |-> <<"u1F93">>,
         u1F9C |-> <<"u1F94">>, u1F9D |-> <<"u1F95">>, u1F9E |-> <<"u1F96">>, u1F9F |-> <<"u1F97">>,
         u1FA8 |-> <<"u1FA0">>, u1FA9 |-> <<"u1FA1">>, u1FAA |-> <<"u1FA2">>, u1FAB |-> <<"u1FA3">>,
         u1FAC |-> <<"u1FA4">>, u1FAD |-> <<"u1FA5">>, u1FAE |-> <<"u1FA6">>, u1FAF |-> <<"u1FA7">>,
         u1FB8 |-> <<"u1FB0">>, u1FB9 |-> <<"u1FB1">>, u1FBA |-> <<"u1F70">>, u1FBB |-> <<"u1F71">>,
         u1FBC |-> <<"u1FB3">>, u1FC8 |-> <<"u1F72">>, u1FC9 |-> <<"u1F73">>, u1FCA |-> <<"u1F74">>,
         u1FCB |-> <<"u1F75">>, u1FCC |-> <<"u1FC3">>, u1FD8 |-> <<"u1FD0">>, u1FD9 |-> <<"u1FD1">>,
         u1FDA |-> <<"u1F76">>, u1FDB |-> <<"u1F77">>, u1FE8 |-> <<"u1FE0">>, u1FE9 |-> <<"u1FE1">>,
         u1FEA |-> <<"u1F7A">>, u1FEB |-> <<"u1F7B">>, u1FEC |-> <<"u1FE5">>, u1FF8 |-> <<"u1F78">>,
         u1FF9 |-> <<"u1F79">>, u1FFA |-> <<"u1F7C">>, u1FFB |-> <<"u1F7D">>, u1FFC |-> <<"u1FF3">>,
         u2126 |-> <<"u03C9">>, u212A |-> <<"k">>, u212B |-> <<"u00E5">>, u2132 |-> <<"u214E">>,
         u2160 |-> <<"u2170">>, u2161 |-> <<"u2171">>, u2162 |-> <<"u2172">>, u2163 |-> <<"u2173">>,
         u2164 |-> <<"u2174">>, u2165 |-> <<"u2175">>, u2166 |-> <<"u2176">>, u2167 |-> <<"u2177">>,
         u2168 |-> <<"u2178">>, u2169 |-> <<"u2179">>, u216A |-> <<"u217A">>, u216B |-> <<"u217B">>,
         u216C |-> <<"u217C">>, u216D |-> <<"u217D">>, u216E |-> <<"u217E">>, u216F |-> <<"u217F">>,
         u2183 |-> <<"u2184">>, u24B6 |-> <<"u24D0">>, u24B7 |-> <<"u24D1">>, u24B8 |-> <<"u24D2">>,
         u24B9 |-> <<"u24D3">>, u24BA |-> <<"u24D4">>, u24BB |-> <<"u24D5">>, u24BC |-> <<"u24D6">>,
         u24BD |-> <<"u24D7">>, u24BE |-> <<"u24D8">>, u24BF |-> <<"u24D9">>, u24C0 |-> <<"u24DA">>,
         u24C1 |-> <<"u24DB">>, u24C2 |-> <<"u24DC">>, u24C3 |-> <<"u24DD">>, u24C4 |-> <<"u24DE">>,
         u24C5 |-> <<"u24DF">>, u24C6 |-> <<"u24E0">>, u24C7 |-> <<"u24E1">>, u24C8 |-> <<"u24E2">>,
         u24C9 |-> <<"u24E3">>, u24CA |-> <<"u24E4">>, u24CB |-> <<"u24E5">>, u24CC |-> <<"u24E6">>,
         u24CD |-> <<"u24E7">>, u24CE |-> <<"u24E8">>, u24CF |-> <<"u24E9">>, u2C00 |-> <<"u2C30">>,
         u2C01 |-> <<"u2C31">>, u2C02 |-> <<"u2C32">>, u2C03 |-> <<"u2C33">>, u2C04 |-> <<"u2C34">>,
         u2C05 |-> <<"u2C35">>, u2C06 |-> <<"u2C36">>, u2C07 |-> <<"u2C37">>, u2C08 |-> <<"u2C38">>,
         u2C09 |-> <<"u2C39">>, u2C0A |-> <<"u2C3A">>, u2C0B |-> <<"u2C3B">>, u2C0C |-> <<"u2C3C">>,
         u2C0D |-> <<"u2C3D">>, u2C0E |-> <<"u2C3E">>, u2C0F |-> <<"u2C3F">>, u2C10 |-> <<"u2C40">>,
         u2C11 |-> <<"u2C41">>, u2C12 |-> <<"u2C42">>, u2C13 |-> <<"u2C43">>, u2C14 |-> <<"u2C44">>,
         u2C15 |-> <<"u2C45">>, u2C16 |-> <<"u2C46">>, u2C17 |-> <<"u2C47">>, u2C18 |-> <<"u2C48">>,
         u2C19 |-> <<"u2C49">>, u2C1A |-> <<"u2C4A">>, u2C1B |-> <<"u2C4B">>, u2C1C |-> <<"u2C4C">>,
         u2C1D |-> <<"u2C4D">>, u2C1E |-> <<"u2C4E">>, u2C1F |-> <<"u2C4F">>, u2C20 |-> <<"u2C50">>,
         u2C21 |-> <<"u2C51">>, u2C22 |-> <<"u2C52">>, u2C23 |-> <<"u2C53">>, u2C24 |-> <<"u2C54">>,
         u2C25 |-> <<"u2C55">>, u2C26 |-> <<"u2C56">>, u2C27 |-> <<"u2C57">>, u2C28 |-> <<"u2C58">>,
         u2C29 |-> <<"u2C59">>, u2C2A |-> <<"u2C5A">>, u2C2B |-> <<"u2C5B">>, u2C2C |-> <<"u2C5C">>,
         u2C2D |-> <<"u2C5D">>, u2C2E |-> <<"u2C5E">>, u2C2F |-> <<"u2C5F">>, u2C60 |-> <<"u2C61">>,
         u2C62 |-> <<"u026B">>, u2C63 |-> <<"u1D7D">>, u2C64 |-> <<"u027D">>, u2C67 |-> <<"u2C68">>,
         u2C69 |-> <<"u2C6A">>, u2C6B |-> <<"u2C6C">>, u2C6D |-> <<"u0251">>, u2C6E |-> <<"u0271">>,
         u2C6F |-> <<"u0250">>, u2C70 |-> <<"u0252">>, u2C72 |-> <<"u2C73">>, u2C75 |-> <<"u2C76">>,
         u2C7E |-> <<"u023F">>, u2C7F |-> <<"u0240">>, u2C80 |-> <<"u2C81">>, u2C82 |-> <<"u2C83">>,
         u2C84 |-> <<"u2C85">>, u2C86 |-> <<"u2C87">>, u2C88 |-> <<"u2C89">>, u2C8A |-> <<"u2C8B">>,
         u2C8C |-> <<"u2C8D">>, u2C8E |-> <<"u2C8F">>, u2C90 |-> <<"u2C91">>, u2C92 |-> <<"u2C93">>,
         u2C94 |-> <<"u2C95">>, u2C96 |-> <<"u2C97">>, u2C98 |-> <<"u2C99">>, u2C9A |-> <<"u2C9B">>,
         u2C9C |-> <<"u2C9D">>, u2C9E |-> <<"u2C9F">>, u2CA0 |-> <<"u2CA1">>, u2CA2 |-> <<"u2CA3">>,
         u2CA4 |-> <<"u2CA5">>, u2CA6 |-> <<"u2CA7">>, u2CA8 |-> <<"u2CA9">>, u2CAA |-> <<"u2CAB">>,
         u2CAC |-> <<"u2CAD">>, u2CAE |-> <<"u2CAF">>, u2CB0 |-> <<"u2CB1">>, u2CB2 |-> <<"u2CB3">>,
         u2CB4 |-> <<"u2CB5">>, u2CB6 |-> <<"u2CB7">>, u2CB8 |-> <<"u2CB9">>, u2CBA |-> <<"u2CBB">>,
         u2CBC |-> <<"u2CBD">>, u2CBE |-> <<"u2CBF">>, u2CC0 |-> <<"u2CC1">>, u2CC2 |-> <<"u2CC3">>,
         u2CC4 |-> <<"u2CC5">>, u2CC6 |-> <<"u2CC7">>, u2CC8 |-> <<"u2CC9">>, u2CCA |-> <<"u2CCB">>,
         u2CCC |-> <<"u2CCD">>, u2CCE |-> <<"u2CCF">>, u2CD0 |-> <<"u2CD1">>, u2CD2 |-> <<"u2CD3">>,
         u2CD4 |-> <<"u2CD5">>, u2CD6 |-> <<"u2CD7">>, u2CD8 |-> <<"u2CD9">>, u2CDA |-> <<"u2CDB">>,
         u2CDC |-> <<"u2CDD">>, u2CDE |-> <<"u2CDF">>, u2CE0 |-> <<"u2CE1">>, u2CE2 |-> <<"u2CE3">>,
         u2CEB |-> <<"u2CEC">>, u2CED |-> <<"u2CEE">>, u2CF2 |-> <<"u2CF3">>, uA640 |-> <<"uA641">>,
         uA642 |-> <<"uA643">>, uA644 |-> <<"uA645">>, uA646 |-> <<"uA647">>, uA648 |-> <<"uA649">>,
         uA64A |-> <<"uA64B">>, uA64C |-> <<"uA64D">>, uA64E |-> <<"uA64F">>, uA650 |-> <<"uA651">>,
         uA652 |-> <<"uA653">>, uA654 |-> <<"uA655">>, uA656 |-> <<"uA657">>, uA658 |-> <<"uA659">>,
         uA65A |-> <<"uA65B">>, uA65C |-> <<"uA65D">>, uA65E |-> <<"uA65F">>, uA660 |-> <<"uA661">>,
         uA662 |-> <<"uA663">>, uA664 |-> <<"uA665">>, uA666 |-> <<"uA667">>, uA668 |-> <<"uA669">>,
         uA66A |-> <<"uA66B">>, uA66C |-> <<"uA66D">>, uA680 |-> <<"uA681">>, uA682 |-> <<"uA683">>,
         uA684 |-> <<"uA685">>, uA686 |-> <<"uA687">>, uA688 |-> <<"uA689">>, uA68A |-> <<"uA68B">>,
         uA68C |-> <<"uA68D">>, uA68E |-> <<"uA68F">>, uA690 |-> <<"uA691">>, uA692 |-> <<"uA693">>,
         uA694 |-> <<"uA695">>, uA696 |-> <<"uA697">>, uA698 |-> <<"uA699">>, uA69A |-> <<"uA69B">>,
         uA722 |-> <<"uA723">>, uA724 |-> <<"uA725">>, uA726 |-> <<"uA727">>, uA728 |-> <<"uA729">>,
         uA72A |-> <<"uA72B">>, uA72C |-> <<"uA72D">>, uA72E |-> <<"uA72F">>, uA732 |-> <<"uA733">>,
         uA734 |-> <<"uA735">>, uA736 |-> <<"uA737">>, uA738 |-> <<"uA739">>, uA73A |-> <<"uA73B">>,
         uA73C |-> <<"uA73D">>, uA73E |-> <<"uA73F">>, uA740 |-> <<"uA741">>, uA742 |-> <<"uA743">>,
         uA744 |-> <<"uA745">>, uA746 |-> <<"uA747">>, uA748 |-> <<"uA749">>, uA74A |-> <<"uA74B">>,
         uA74C |-> <<"uA74D">>, uA74E |-> <<"uA74F">>, uA750 |-> <<"uA751">>, uA752 |-> <<"uA753">>,
         uA754 |-> <<"uA755">>, uA756 |-> <<"uA757">>, uA758 |-> <<"uA759">>, uA75A |-> <<"uA75B">>,
         uA75C |-> <<"uA75D">>, uA75E |-> <<"uA75F">>, uA760 |-> <<"uA761">>, uA762 |-> <<"uA763">>,
         uA764 |-> <<"uA765">>, uA766 |-> <<"uA767">>, uA768 |-> <<"uA769">>, uA76A |-> <<"uA76B">>,
         uA76C |-> <<"uA76D">>, uA76E |-> <<"uA76F">>, uA779 |-> <<"uA77A">>, uA77B |-> <<"uA77C">>,
         uA77D |-> <<"u1D79">>, uA77E |-> <<"uA77F">>, uA780 |-> <<"uA781">>, uA782 |-> <<"uA783">>,
         uA784 |-> <<"uA785">>, uA786 |-> <<"uA787">>, uA78B |-> <<"uA78C">>, uA78D |-> <<"u0265">>,
         uA790 |-> <<"uA791">>, uA792 |-> <<"uA793">>, uA796 |-> <<"uA797">>, uA798 |-> <<"uA799">>,
         uA79A |-> <<"uA79B">>, uA79C |-> <<"uA79D">>, uA79E |-> <<"uA79F">>, uA7A0 |-> <<"uA7A1">>,
         uA7A2 |-> <<"uA7A3">>, uA7A4 |-> <<"uA7A5">>, uA7A6 |-> <<"uA7A7">>, uA7A8 |-> <<"uA7A9">>,
         uA7AA |-> <<"u0266">>, uA7AB |-> <<"u025C">>, uA7AC |-> <<"u0261">>, uA7AD |-> <<"u026C">>,
         uA7AE |-> <<"u026A">>, uA7B0 |-> <<"u029E">>, uA7B1 |-> <<"u0287">>, uA7B2 |-> <<"u029D">>,
         uA7B3 |-> <<"uAB53">>, uA7B4 |-> <<"uA7B5">>, uA7B6 |-> <<"uA7B7">>, uA7B8 |-> <<"uA7B9">>,
         uA7BA |-> <<"uA7BB">>, uA7BC |-> <<"uA7BD">>, uA7BE |-> <<"uA7BF">>, uA7C0 |-> <<"uA7C1">>,
         uA7C2 |-> <<"uA7C3">>, uA7C4 |-> <<"uA794">>, uA7C5 |-> <<"u0282">>, uA7C6 |-> <<"u1D8E">>,
         uA7C7 |-> <<"uA7C8">>, uA7C9 |-> <<"uA7CA">>, uA7D0 |-> <<"uA7D1">>, uA7D6 |-> <<"uA7D7">>,
         uA7D8 |-> <<"uA7D9">>, uA7F5 |-> <<"uA7F6">>, uFF21 |-> <<"uFF41">>, uFF22 |-> <<"uFF42">>,
         uFF23 |-> <<"uFF43">>, uFF24 |-> <<"uFF44">>, uFF25 |-> <<"uFF45">>, uFF26 |-> <<"uFF46">>,
         uFF27 |-> <<"uFF47">>, uFF28 |-> <<"uFF48">>, uFF29 |-> <<"uFF49">>, uFF2A |-> <<"uFF4A">>,
         uFF2B |-> <<"uFF4B">>, uFF2C |-> <<"uFF4C">>, uFF2D |-> <<"uFF4D">>, uFF2E |-> <<"uFF4E">>,
         uFF2F |-> <<"uFF4F">>, uFF30 |-> <<"uFF50">>, uFF31 |-> <<"uFF51">>, uFF32 |-> <<"uFF52">>,
         uFF33 |-> <<"uFF53">>, uFF34 |-> <<"uFF54">>, uFF35 |-> <<"uFF55">>, uFF36 |-> <<"uFF56">>,
         uFF37 |-> <<"uFF57">>, uFF38 |-> <<"uFF58">>, uFF39 |-> <<"uFF59">>, uFF3A |-> <<"uFF5A">>,
         u10400 |-> <<"u10428">>, u10401 |-> <<"u10429">>, u10402 |-> <<"u1042A">>, u10403 |-> <<"u1042B">>,
         u10404 |-> <<"u1042C">>, u10405 |-> <<"u1042D">>, u10406 |-> <<"u1042E">>, u10407 |-> <<"u1042F">>,
         u10408 |-> <<"u10430">>, u10409 |-> <<"u10431">>, u1040A |-> <<"u10432">>, u1040B |-> <<"u10433">>,
         u1040C |-> <<"u10434">>, u1040D |-> <<"u10435">>, u1040E |-> <<"u10436">>, u1040F |-> <<"u10437">>,
         u10410 |-> <<"u10438">>, u10411 |-> <<"u10439">>, u10412 |-> <<"u1043A">>, u10413 |-> <<"u1043B">>,
         u10414 |-> <<"u1043C">>, u10415 |-> <<"u1043D">>, u10416 |-> <<"u1043E">>, u10417 |-> <<"u1043F">>,
         u10418 |-> <<"u10440">>, u10419 |-> <<"u10441">>, u1041A |-> <<"u10442">>, u1041B |-> <<"u10443">>,
         u1041C |-> <<"u10444">>, u1041D |-> <<"u10445">>, u1041E |-> <<"u10446">>, u1041F |-> <<"u10447">>,
         u10420 |-> <<"u10448">>, u10421 |-> <<"u10449">>, u10422 |-> <<"u1044A">>, u10423 |-> <<"u1044B">>,
         u10424 |-> <<"u1044C">>, u10425 |-> <<"u1044D">>, u10426 |-> <<"u1044E">>, u10427 |-> <<"u1044F">>,
         u104B0 |-> <<"u104D8">>, u104B1 |-> <<"u104D9">>, u104B2 |-> <<"u104DA">>, u104B3 |-> <<"u104DB">>,
         u104B4 |-> <<"u104DC">>, u104B5 |-> <<"u104DD">>, u104B6 |-> <<"u104DE">>, u104B7 |-> <<"u104DF">>,
         u104B8 |-> <<"u104E0">>, u104B9 |-> <<"u104E1">>, u104BA |-> <<"u104E2">>, u104BB |-> <<"u104E3">>,
         u104BC |-> <<"u104E4">>, u104BD |-> <<"u104E5">>, u104BE |-> <<"u104E6">>, u104BF |-> <<"u104E7">>,
         u104C0 |-> <<"u104E8">>, u104C1 |-> <<"u104E9">>, u104C2 |-> <<"u104EA">>, u104C3 |-> <<"u104EB">>,
         u104C4 |-> <<"u104EC">>, u104C5 |-> <<"u104ED">>, u104C6 |-> <<"u104EE">>, u104C7 |-> <<"u104EF">>,
         u104C8 |-> <<"u104F0">>, u104C9 |-> <<"u104F1">>, u104CA |-> <<"u104F2">>, u104CB |-> <<"u104F3">>,
         u104CC |-> <<"u104F4">>, u104CD |-> <<"u104F5">>, u104CE |-> <<"u104F6">>, u104CF |-> <<"u104F7">>,
         u104D0 |-> <<"u104F8">>, u104D1 |-> <<"u104F9">>, u104D2 |-> <<"u104FA">>, u104D3 |-> <<"u104FB">>,
         u10570 |-> <<"u10597">>, u10571 |-> <<"u10598">>, u10572 |-> <<"u10599">>, u10573 |-> <<"u1059A">>,
         u10574 |-> <<"u1059B">>, u10575 |-> <<"u1059C">>, u10576 |-> <<"u1059D">>, u10577 |-> <<"u1059E">>,
         u10578 |-> <<"u1059F">>, u10579 |-> <<"u105A0">>, u1057A |-> <<"u105A1">>, u1057C |-> <<"u105A3">>,
         u1057D |-> <<"u105A4">>, u1057E |-> <<"u105A5">>, u1057F |-> <<"u105A6">>, u10580 |-> <<"u105A7">>,
         u10581 |-> <<"u105A8">>, u10582 |-> <<"u105A9">>, u10583 |-> <<"u105AA">>, u10584 |-> <<"u105AB">>,
         u10585 |-> <<"u105AC">>, u10586 |-> <<"u105AD">>, u10587 |-> <<"u105AE">>, u10588 |-> <<"u105AF">>,
         u10589 |-> <<"u105B0">>, u1058A |-> <<"u105B1">>, u1058C |-> <<"u105B3">>, u1058D |-> <<"u105B4">>,
         u1058E |-> <<"u105B5">>, u1058F |-> <<"u105B6">>, u10590 |-> <<"u105B7">>, u10591 |-> <<"u105B8">>,
         u10592 |-> <<"u105B9">>, u10594 |-> <<"u105BB">>, u10595 |-> <<"u105BC">>, u10C80 |-> <<"u10CC0">>,
         u10C81 |-> <<"u10CC1">>, u10C82 |-> <<"u10CC2">>, u10C83 |-> <<"u10CC3">>, u10C84 |-> <<"u10CC4">>,
         u10C85 |-> <<"u10CC5">>, u10C86 |-> <<"u10CC6">>, u10C87 |-> <<"u10CC7">>, u10C88 |-> <<"u10CC8">>,
         u10C89 |-> <<"u10CC9">>, u10C8A |-> <<"u10CCA">>, u10C8B |-> <<"u10CCB">>, u10C8C |-> <<"u10CCC">>,
         u10C8D |-> <<"u10CCD">>, u10C8E |-> <<"u10CCE">>, u10C8F |-> <<"u10CCF">>, u10C90 |-> <<"u10CD0">>,
         u10C91 |-> <<"u10CD1">>, u10C92 |-> <<"u10CD2">>, u10C93 |-> <<"u10CD3">>, u10C94 |-> <<"u10CD4">>,
         u10C95 |-> <<"u10CD5">>, u10C96 |-> <<"u10CD6">>, u10C97 |-> <<"u10CD7">>, u10C98 |-> <<"u10CD8">>,
         u10C99 |-> <<"u10CD9">>, u10C9A |-> <<"u10CDA">>, u10C9B |-> <<"u10CDB">>, u10C9C |-> <<"u10CDC">>,
         u10C9D |-> <<"u10CDD">>, u10C9E |-> <<"u10CDE">>, u10C9F |-> <<"u10CDF">>, u10CA0 |-> <<"u10CE0">>,
         u10CA1 |-> <<"u10CE1">>, u10CA2 |-> <<"u10CE2">>, u10CA3 |-> <<"u10CE3">>, u10CA4 |-> <<"u10CE4">>,
         u10CA5 |-> <<"u10CE5">>, u10CA6 |-> <<"u10CE6">>, u10CA7 |-> <<"u10CE7">>, u10CA8 |-> <<"u10CE8">>,
         u10CA9 |-> <<"u10CE9">>, u10CAA |-> <<"u10CEA">>, u10CAB |-> <<"u10CEB">>, u10CAC |-> <<"u10CEC">>,
         u10CAD |-> <<"u10CED">>, u10CAE |-> <<"u10CEE">>, u10CAF |-> <<"u10CEF">>, u10CB0 |-> <<"u10CF0">>,
         u10CB1 |-> <<"u10CF1">>, u10CB2 |-> <<"u10CF2">>, u118A0 |-> <<"u118C0">>, u118A1 |-> <<"u118C1">>,
         u118A2 |-> <<"u118C2">>, u118A3 |-> <<"u118C3">>, u118A4 |-> <<"u118C4">>, u118A5 |-> <<"u118C5">>,
         u118A6 |-> <<"u118C6">>, u118A7 |-> <<"u118C7">>, u118A8 |-> <<"u118C8">>, u118A9 |-> <<"u118C9">>,
         u118AA |-> <<"u118CA">>, u118AB |-> <<"u118CB">>, u118AC |-> <<"u118CC">>, u118AD |-> <<"u118CD">>,
         u118AE |-> <<"u118CE">>, u118AF |-> <<"u118CF">>, u118B0 |-> <<"u118D0">>, u118B1 |-> <<"u118D1">>,
         u118B2 |-> <<"u118D2">>, u118B3 |-> <<"u118D3">>, u118B4 |-> <<"u118D4">>, u118B5 |-> <<"u118D5">>,
         u118B6 |-> <<"u118D6">>, u118B7 |-> <<"u118D7">>, u118B8 |-> <<"u118D8">>, u118B9 |-> <<"u118D9">>,
         u118BA |-> <<"u118DA">>, u118BB |-> <<"u118DB">>, u118BC |-> <<"u118DC">>, u118BD |-> <<"u118DD">>,
         u118BE |-> <<"u118DE">>, u118BF |-> <<"u118DF">>, u16E40 |-> <<"u16E60">>, u16E41 |-> <<"u16E61">>,
         u16E42 |-> <<"u16E62">>, u16E43 |-> <<"u16E63">>, u16E44 |-> <<"u16E64">>, u16E45 |-> <<"u16E65">>,
         u16E46 |-> <<"u16E66">>, u16E47 |-> <<"u16E67">>, u16E48 |-> <<"u16E68">>, u16E49 |-> <<"u16E69">>,
         u16E4A |-> <<"u16E6A">>, u16E4B |-> <<"u16E6B">>, u16E4C |-> <<"u16E6C">>, u16E4D |-> <<"u16E6D">>,
         u16E4E |-> <<"u16E6E">>, u16E4F |-> <<"u16E6F">>, u16E50 |-> <<"u16E70">>, u16E51 |-> <<"u16E71">>,
         u16E52 |-> <<"u16E72">>, u16E53 |-> <<"u16E73">>, u16E54 |-> <<"u16E74">>, u16E55 |-> <<"u16E75">>,
         u16E56 |-> <<"u16E76">>, u16E57 |-> <<"u16E77">>, u16E58 |-> <<"u16E78">>, u16E59 |-> <<"u16E79">>,
         u16E5A |-> <<"u16E7A">>, u16E5B |-> <<"u16E7B">>, u16E5C |-> <<"u16E7C">>, u16E5D |-> <<"u16E7D">>,
         u16E5E |-> <<"u16E7E">>, u16E5F |-> <<"u16E7F">>, u1E900 |-> <<"u1E922">>, u1E901 |-> <<"u1E923">>,
         u1E902 |-> <<"u1E924">>, u1E903 |-> <<"u1E925">>, u1E904 |-> <<"u1E926">>, u1E905 |-> <<"u1E927">>,
         u1E906 |-> <<"u1E928">>, u1E907 |-> <<"u1E929">>, u1E908 |-> <<"u1E92A">>, u1E909 |-> <<"u1E92B">>,
         u1E90A |-> <<"u1E92C">>, u1E90B |-> <<"u1E92D">>, u1E90C |-> <<"u1E92E">>, u1E90D |-> <<"u1E92F">>,
         u1E90E |-> <<"u1E930">>, u1E90F |-> <<"u1E931">>, u1E910 |-> <<"u1E932">>, u1E911 |-> <<"u1E933">>,
         u1E912 |-> <<"u1E934">>, u1E913 |-> <<"u1E935">>, u1E914 |-> <<"u1E936">>, u1E915 |-> <<"u1E937">>,
         u1E916 |-> <<"u1E938">>, u1E917 |-> <<"u1E939">>, u1E918 |-> <<"u1E93A">>, u1E919 |-> <<"u1E93B">>,
         u1E91A |-> <<"u1E93C">>, u1E91B |-> <<"u1E93D">>, u1E91C |-> <<"u1E93E">>, u1E91D |-> <<"u1E93F">>,
         u1E91E |-> <<"u1E940">>, u1E91F |-> <<"u1E941">>, u1E920 |-> <<"u1E942">>, u1E921 |-> <<"u1E943">>],
     upper |->
        {"A", "B", "C", "D", "E", "F", "G", "H", "I", "J", "K", "L", "M", "N", "O", "P", "Q", "R", "S", "T",
         "U", "V", "W", "X", "Y", "Z", "u00C0", "u00C1", "u00C2", "u00C3", "u00C4", "u00C5", "u00C6", "u00C7",
         "u00C8", "u00C9", "u00CA", "u00CB", "u00CC", "u00CD", "u00CE", "u00CF", "u00D0", "u00D1", "u00D2",
         "u00D3", "u00D4", "u00D5", "u00D6", "u00D8", "u00D9", "u00DA", "u00DB", "u00DC", "u00DD", "u00DE",
         "u0100", "u0102", "u0104", "u0106", "u0108", "u010A", "u010C", "u010E", "u0110", "u0112", "u0114",
         "u0116", "u0118", "u011A", "u011C", "u011E", "u0120", "u0122", "u0124", "u0126", "u0128", "u012A",
         "u012C", "u012E", "u0130", "u0132", "u0134", "u0136", "u0139", "u013B", "u013D", "u013F", "u0141",
         "u0143", "u0145", "u0147", "u014A", "u014C", "u014E", "u0150", "u0152", "u0154", "u0156", "u0158",
         "u015A", "u015C", "u015E", "u0160", "u0162", "u0164", "u0166", "u0168", "u016A", "u016C", "u016E",
         "u0170", "u0172", "u0174", "u0176", "u0178", "u0179", "u017B", "u017D", "u0181", "u0182", "u0184",
         "u0186", "u0187", "u0189", "u018A", "u018B", "u018E", "u018F", "u0190", "u0191", "u0193", "u0194",
         "u0196", "u0197", "u0198", "u019C", "u019D", "u019F", "u01A0", "u01A2", "u01A4", "u01A6", "u01A7",
         "u01A9", "u01AC", "u01AE", "u01AF", "u01B1", "u01B2", "u01B3", "u01B5", "u01B7", "u01B8", "u01BC",
         "u01C4", "u01C5", "u01C7", "u01C8", "u01CA", "u01CB", "u01CD", "u01CF", "u01D1", "u01D3", "u01D5",
         "u01D7", "u01D9", "u01DB", "u01DE", "u01E0", "u01E2", "u01E4", "u01E6", "u01E8", "u01EA", "u01EC",
         "u01EE", "u01F1", "u01F2", "u01F4", "u01F6", "u01F7", "u01F8", "u01FA", "u01FC", "u01FE", "u0200",
         "u0202", "u0204", "u0206", "u0208", "u020A", "u020C", "u020E", "u0210", "u0212", "u0214", "u0216",
         "u0218", "u021A", "u021C", "u021E", "u0220", "u0222", "u0224", "u0226", "u0228", "u022A", "u022C",
         "u022E", "u0230", "u0232", "u023A", "u023B", "u023D", "u023E", "u0241", "u0243", "u0244", "u0245",
         "u0246", "u0248", "u024A", "u024C", "u024E", "u0370", "u0372", "u0376", "u037F", "u0386", "u0388",
         "u0389", "u038A", "u038C", "u038E", "u038F", "u0391", "u0392", "u0393", "u0394", "u0395", "u0396",
         "u0397", "u0398", "u0399", "u039A", "u039B", "u039C", "u039D", "u039E", "u039F", "u03A0", "u03A1",
         "u03A3", "u03A4", "u03A5", "u03A6", "u03A7", "u03A8", "u03A9", "u03AA", "u03AB", "u03CF", "u03D8",
         "u03DA", "u03DC", "u03DE", "u03E0", "u03E2", "u03E4", "u03E6", "u03E8", "u03EA", "u03EC", "u03EE",
         "u03F4", "u03F7", "u03F9", "u03FA", "u03FD", "u03FE", "u03FF", "u0400", "u0401", "u0402", "u0403",
         "u0404", "u0405", "u0406", "u0407", "u0408", "u0409", "u040A", "u040B", "u040C", "u040D", "u040E",
         "u040F", "u0410", "u0411", "u0412", "u0413", "u0414", "u0415", "u0416", "u0417", "u0418", "u0419",
         "u041A", "u041B", "u041C", "u041D", "u041E", "u041F", "u0420", "u0421", "u0422", "u0423", "u0424",
         "u0425", "u0426", "u0427", "u0428", "u0429", "u042A", "u042B", "u042C", "u042D", "u042E", "u042F",
         "u0460", "u0462", "u0464", "u0466", "u0468", "u046A", "u046C", "u046E", "u0470", "u0472", "u0474",
         "u0476", "u0478", "u047A", "u047C", "u047E", "u0480", "u048A", "u048C", "u048E", "u0490", "u0492",
         "u0494", "u0496", "u0498", "u049A", "u049C", "u049E", "u04A0", "u04A2", "u04A4", "u04A6", "u04A8",
         "u04AA", "u04AC", "u04AE", "u04B0", "u04B2", "u04B4", "u04B6", "u04B8", "u04BA", "u04BC", "u04BE",
         "u04C0", "u04C1", "u04C3", "u04C5", "u04C7", "u04C9", "u04CB", "u04CD", "u04D0", "u04D2", "u04D4",
         "u04D6", "u04D8", "u04DA", "u04DC", "u04DE", "u04E0", "u04E2", "u04E4", "u04E6", "u04E8", "u04EA",
         "u04EC", "u04EE", "u04F0", "u04F2", "u04F4", "u04F6", "u04F8", "u04FA", "u04FC", "u04FE", "u0500",
         "u0502", "u0504", "u0506", "u0508", "u050A", "u050C", "u050E", "u0510", "u0512", "u0514", "u0516",
         "u0518", "u051A", "u051C", "u051E", "u0520", "u0522", "u0524", "u0526", "u0528", "u052A", "u052C",
         "u052E", "u0531", "u0532", "u0533", "u0534", "u0535", "u0536", "u0537", "u0538", "u0539", "u053A",
         "u053B", "u053C", "u053D", "u053E", "u053F", "u0540", "u0541", "u0542", "u0543", "u0544", "u0545",
         "u0546", "u0547", "u0548", "u0549", "u054A", "u054B", "u054C", "u054D", "u054E", "u054F", "u0550",
         "u0551", "u0552", "u0553", "u0554", "u0555", "u0556", "u10A0", "u10A1", "u10A2", "u10A3", "u10A4",
         "u10A5", "u10A6", "u10A7", "u10A8", "u10A9", "u10AA", "u10AB", "u10AC", "u10AD", "u10AE", "u10AF",
         "u10B0", "u10B1", "u10B2", "u10B3", "u10B4", "u10B5", "u10B6", "u10B7", "u10B8", "u10B9", "u10BA",
         "u10BB", "u10BC", "u10BD", "u10BE", "u10BF", "u10C0", "u10C1", "u10C2", "u10C3", "u10C4", "u10C5",
         "u10C7", "u10CD", "u13A0", "u13A1", "u13A2", "u13A3", "u13A4", "u13A5", "u13A6", "u13A7", "u13A8",
         "u13A9", "u13AA", "u13AB", "u13AC", "u13AD", "u13AE", "u13AF", "u13B0", "u13B1", "u13B2", "u13B3",
         "u13B4", "u13B5", "u13B6", "u13B7", "u13B8", "u13B9", "u13BA", "u13BB", "u13BC", "u13BD", "u13BE",
         "u13BF", "u13C0", "u13C1", "u13C2", "u13C3", "u13C4", "u13C5", "u13C6", "u13C7", "u13C8", "u13C9",
         "u13CA", "u13CB", "u13CC", "u13CD", "u13CE", "u13CF", "u13D0", "u13D1", "u13D2", "u13D3", "u13D4",
         "u13D5", "u13D6", "u13D7", "u13D8", "u13D9", "u13DA", "u13DB", "u13DC", "u13DD", "u13DE", "u13DF",
         "u13E0", "u13E1", "u13E2", "u13E3", "u13E4", "u13E5", "u13E6", "u13E7", "u13E8", "u13E9", "u13EA",
         "u13EB", "u13EC", "u13ED", "u13EE", "u13EF", "u13F0", "u13F1", "u13F2", "u13F3", "u13F4", "u13F5",
         "u1C90", "u1C91", "u1C92", "u1C93", "u1C94", "u1C95", "u1C96", "u1C97", "u1C98", "u1C99", "u1C9A",
         "u1C9B", "u1C9C", "u1C9D", "u1C9E", "u1C9F", "u1CA0", "u1CA1", "u1CA2", "u1CA3", "u1CA4", "u1CA5",
         "u1CA6", "u1CA7", "u1CA8", "u1CA9", "u1CAA", "u1CAB", "u1CAC", "u1CAD", "u1CAE", "u1CAF", "u1CB0",
         "u1CB1", "u1CB2", "u1CB3", "u1CB4", "u1CB5", "u1CB6", "u1CB7", "u1CB8", "u1CB9", "u1CBA", "u1CBD",
         "u1CBE", "u1CBF", "u1E00", "u1E02", "u1E04", "u1E06", "u1E08", "u1E0A", "u1E0C", "u1E0E", "u1E10",
         "u1E12", "u1E14", "u1E16", "u1E18", "u1E1A", "u1E1C", "u1E1E", "u1E20", "u1E22", "u1E24", "u1E26",
         "u1E28", "u1E2A", "u1E2C", "u1E2E", "u1E30", "u1E32", "u1E34", "u1E36", "u1E38", "u1E3A", "u1E3C",
         "u1E3E", "u1E40", "u1E42", "u1E44", "u1E46", "u1E48", "u1E4A", "u1E4C", "u1E4E", "u1E50", "u1E52",
         "u1E54", "u1E56", "u1E58", "u1E5A", "u1E5C", "u1E5E", "u1E60", "u1E62", "u1E64", "u1E66", "u1E68",
         "u1E6A", "u1E6C", "u1E6E", "u1E70", "u1E72", "u1E74", "u1E76", "u1E78", "u1E7A", "u1E7C", "u1E7E",
         "u1E80", "u1E82", "u1E84", "u1E86", "u1E88", "u1E8A", "u1E8C", "u1E8E", "u1E90", "u1E92", "u1E94",
         "u1E9E", "u1EA0", "u1EA2", "u1EA4", "u1EA6", "u1EA8", "u1EAA", "u1EAC", "u1EAE", "u1EB0", "u1EB2",
         "u1EB4", "u1EB6", "u1EB8", "u1EBA", "u1EBC", "u1EBE", "u1EC0", "u1EC2", "u1EC4", "u1EC6", "u1EC8",
         "u1ECA", "u1ECC", "u1ECE", "u1ED0", "u1ED2", "u1ED4", "u1ED6", "u1ED8", "u1EDA", "u1EDC", "u1EDE",
         "u1EE0", "u1EE2", "u1EE4", "u1EE6", "u1EE8", "u1EEA", "u1EEC", "u1EEE", "u1EF0", "u1EF2", "u1EF4",
         "u1EF6", "u1EF8", "u1EFA", "u1EFC", "u1EFE", "u1F08", "u1F09", "u1F0A", "u1F0B", "u1F0C", "u1F0D",
         "u1F0E", "u1F0F", "u1F18", "u1F19", "u1F1A", "u1F1B", "u1F1C", "u1F1D", "u1F28", "u1F29", "u1F2A",
         "u1F2B", "u1F2C", "u1F2D", "u1F2E", "u1F2F", "u1F38", "u1F39", "u1F3A", "u1F3B", "u1F3C", "u1F3D",
         "u1F3E", "u1F3F", "u1F48", "u1F49", "u1F4A", "u1F4B", "u1F4C", "u1F4D", "u1F59", "u1F5B", "u1F5D",
         "u1F5F", "u1F68", "u1F69", "u1F6A", "u1F6B", "u1F6C", "u1F6D", "u1F6E", "u1F6F", "u1F88", "u1F89",
         "u1F8A", "u1F8B", "u1F8C", "u1F8D", "u1F8E", "u1F8F", "u1F98", "u1F99", "u1F9A", "u1F9B", "u1F9C",
         "u1F9D", "u1F9E", "u1F9F", "u1FA8", "u1FA9", "u1FAA", "u1FAB", "u1FAC", "u1FAD", "u1FAE", "u1FAF",
         "u1FB8", "u1FB9", "u1FBA", "u1FBB", "u1FBC", "u1FC8", "u1FC9", "u1FCA", "u1FCB", "u1FCC", "u1FD8",
         "u1FD9", "u1FDA", "u1FDB", "u1FE8", "u1FE9", "u1FEA", "u1FEB", "u1FEC", "u1FF8", "u1FF9", "u1FFA",
         "u1FFB", "u1FFC", "u2126", "u212A", "u212B", "u2132", "u2160", "u2161", "u2162", "u2163", "u2164",
         "u2165", "u2166", "u2167", "u2168", "u2169", "u216A", "u216B", "u216C", "u216D", "u216E", "u216F",
         "u2183", "u24B6", "u24B7", "u24B8", "u24B9", "u24BA", "u24BB", "u24BC", "u24BD", "u24BE", "u24BF",
         "u24C0", "u24C1", "u24C2", "u24C3", "u24C4", "u24C5", "u24C6", "u24C7", "u24C8", "u24C9", "u24CA",
         "u24CB", "u24CC", "u24CD", "u24CE", "u24CF", "u2C00", "u2C01", "u2C02", "u2C03", "u2C04", "u2C05",
         "u2C06", "u2C07", "u2C08", "u2C09", "u2C0A", "u2C0B", "u2C0C", "u2C0D", "u2C0E", "u2C0F", "u2C10",
         "u2C11", "u2C12", "u2C13", "u2C14", "u2C15", "u2C16", "u2C17", "u2C18", "u2C19", "u2C1A", "u2C1B",
         "u2C1C", "u2C1D", "u2C1E", "u2C1F", "u2C20", "u2C21", "u2C22", "u2C23", "u2C24", "u2C25", "u2C26",
         "u2C27", "u2C28", "u2C29", "u2C2A", "u2C2B", "u2C2C", "u2C2D", "u2C2E", "u2C2F", "u2C60", "u2C62",
         "u2C63", "u2C64", "u2C67", "u2C69", "u2C6B", "u2C6D", "u2C6E", "u2C6F", "u2C70", "u2C72", "u2C75",
         "u2C7E", "u2C7F", "u2C80", "u2C82", "u2C84", "u2C86", "u2C88", "u2C8A", "u2C8C", "u2C8E", "u2C90",
         "u2C92", "u2C94", "u2C96", "u2C98", "u2C9A", "u2C9C", "u2C9E", "u2CA0", "u2CA2", "u2CA4", "u2CA6",
         "u2CA8", "u2CAA", "u2CAC", "u2CAE", "u2CB0", "u2CB2", "u2CB4", "u2CB6", "u2CB8", "u2CBA", "u2CBC",
         "u2CBE", "u2CC0", "u2CC2", "u2CC4", "u2CC6", "u2CC8", "u2CCA", "u2CCC", "u2CCE", "u2CD0", "u2CD2",
         "u2CD4", "u2CD6", "u2CD8", "u2CDA", "u2CDC", "u2CDE", "u2CE0", "u2CE2", "u2CEB", "u2CED", "u2CF2",
         "uA640", "uA642", "uA644", "uA646", "uA648", "uA64A", "uA64C", "uA64E", "uA650", "uA652", "uA654",
         "uA656", "uA658", "uA65A", "uA65C", "uA65E", "uA660", "uA662", "uA664", "uA666", "uA668", "uA66A",
         "uA66C", "uA680", "uA682", "uA684", "uA686", "uA688", "uA68A", "uA68C", "uA68E", "uA690", "uA692",
         "uA694", "uA696", "uA698", "uA69A", "uA722", "uA724", "uA726", "uA728", "uA72A", "uA72C", "uA72E",
         "uA732", "uA734", "uA736", "uA738", "uA73A", "uA73C", "uA73E", "uA740", "uA742", "uA744", "uA746",
         "uA748", "uA74A", "uA74C", "uA74E", "uA750", "uA752", "uA754", "uA756", "uA758", "uA75A", "uA75C",
         "uA75E", "uA760", "uA762", "uA764", "uA766", "uA768", "uA76A", "uA76C", "uA76E", "uA779", "uA77B",
         "uA77D", "uA77E", "uA780", "uA782", "uA784", "uA786", "uA78B", "uA78D", "uA790", "uA792", "uA796",
         "uA798", "uA79A", "uA79C", "uA79E", "uA7A0", "uA7A2", "uA7A4", "uA7A6", "uA7A8", "uA7AA", "uA7AB",
         "uA7AC", "uA7AD", "uA7AE", "uA7B0", "uA7B1", "uA7B2", "uA7B3", "uA7B4", "uA7B6", "uA7B8", "uA7BA",
         "uA7BC", "uA7BE", "uA7C0", "uA7C2", "uA7C4", "uA7C5", "uA7C6", "uA7C7", "uA7C9", "uA7D0", "uA7D6",
         "uA7D8", "uA7F5", "uFF21", "uFF22", "uFF23", "uFF24", "uFF25", "uFF26", "uFF27", "uFF28", "uFF29",
         "uFF2A", "uFF2B", "uFF2C", "uFF2D", "uFF2E", "uFF2F", "uFF30", "uFF31", "uFF32", "uFF33", "uFF34",
         "uFF35", "uFF36", "uFF37", "uFF38", "uFF39", "uFF3A", "u10400", "u10401", "u10402", "u10403",
         "u10404", "u10405", "u10406", "u10407", "u10408", "u10409", "u1040A", "u1040B", "u1040C", "u1040D",
         "u1040E", "u1040F", "u10410", "u10411", "u10412", "u10413", "u10414", "u10415", "u10416", "u10417",
         "u10418", "u10419", "u1041A", "u1041B", "u1041C", "u1041D", "u1041E", "u1041F", "u10420", "u10421",
         "u10422", "u10423", "u10424", "u10425", "u10426", "u10427", "u104B0", "u104B1", "u104B2", "u104B3",
         "u104B4", "u104B5", "u104B6", "u104B7", "u104B8", "u104B9", "u104BA", "u104BB", "u104BC", "u104BD",
         "u104BE", "u104BF", "u104C0", "u104C1", "u104C2", "u104C3", "u104C4", "u104C5", "u104C6", "u104C7",
         "u104C8", "u104C9", "u104CA", "u104CB", "u104CC", "u104CD", "u104CE", "u104CF", "u104D0", "u104D1",
         "u104D2", "u104D3", "u10570", "u10571", "u10572", "u10573", "u10574", "u10575", "u10576", "u10577",
         "u10578", "u10579", "u1057A", "u1057C", "u1057D", "u1057E", "u1057F", "u10580", "u10581", "u10582",
         "u10583", "u10584", "u10585", "u10586", "u10587", "u10588", "u10589", "u1058A", "u1058C", "u1058D",
         "u1058E", "u1058F", "u10590", "u10591", "u10592", "u10594", "u10595", "u10C80", "u10C81", "u10C82",
         "u10C83", "u10C84", "u10C85", "u10C86", "u10C87", "u10C88", "u10C89", "u10C8A", "u10C8B", "u10C8C",
         "u10C8D", "u10C8E", "u10C8F", "u10C90", "u10C91", "u10C92", "u10C93", "u10C94", "u10C95", "u10C96",
         "u10C97", "u10C98", "u10C99", "u10C9A", "u10C9B", "u10C9C", "u10C9D", "u10C9E", "u10C9F", "u10CA0",
         "u10CA1", "u10CA2", "u10CA3", "u10CA4", "u10CA5", "u10CA6", "u10CA7", "u10CA8", "u10CA9", "u10CAA",
         "u10CAB", "u10CAC", "u10CAD", "u10CAE", "u10CAF", "u10CB0", "u10CB1", "u10CB2", "u118A0", "u118A1",
         "u118A2", "u118A3", "u118A4", "u118A5", "u118A6", "u118A7", "u118A8", "u118A9", "u118AA", "u118AB",
         "u118AC", "u118AD", "u118AE", "u118AF", "u118B0", "u118B1", "u118B2", "u118B3", "u118B4", "u118B5",
         "u118B6", "u118B7", "u118B8", "u118B9", "u118BA", "u118BB", "u118BC", "u118BD", "u118BE", "u118BF",
         "u16E40", "u16E41", "u16E42", "u16E43", "u16E44", "u16E45", "u16E46", "u16E47", "u16E48", "u16E49",
         "u16E4A", "u16E4B", "u16E4C", "u16E4D", "u16E4E", "u16E4F", "u16E50", "u16E51", "u16E52", "u16E53",
         "u16E54", "u16E55", "u16E56", "u16E57", "u16E58", "u16E59", "u16E5A", "u16E5B", "u16E5C", "u16E5D",
         "u16E5E", "u16E5F", "u1E900", "u1E901", "u1E902", "u1E903", "u1E904", "u1E905", "u1E906", "u1E907",
         "u1E908", "u1E909", "u1E90A", "u1E90B", "u1E90C", "u1E90D", "u1E90E", "u1E90F", "u1E910", "u1E911",
         "u1E912", "u1E913", "u1E914", "u1E915", "u1E916", "u1E917", "u1E918", "u1E919", "u1E91A", "u1E91B",
         "u1E91C", "u1E91D", "u1E91E", "u1E91F", "u1E920", "u1E921"},
     cased |->
        {"A", "B", "C", "D", "E", "F", "G", "H", "I", "J", "K", "L", "M", "N", "O", "P", "Q", "R", "S", "T",
         "U", "V", "W", "X", "Y", "Z", "a", "b", "c", "d", "e", "f", "g", "h", "i", "j", "k", "l", "m", "n",
         "o", "p", "q", "r", "s", "t", "u", "v", "w", "x", "y", "z", "u00AA", "u00B5", "u00BA", "u00C0",
         "u00C1", "u00C2", "u00C3", "u00C4", "u00C5", "u00C6", "u00C7", "u00C8", "u00C9", "u00CA", "u00CB",
         "u00CC", "u00CD", "u00CE", "u00CF", "u00D0", "u00D1", "u00D2", "u00D3", "u00D4", "u00D5", "u00D6",
         "u00D8", "u00D9", "u00DA", "u00DB", "u00DC", "u00DD", "u00DE", "u00DF", "u00E0", "u00E1", "u00E2",
         "u00E3", "u00E4", "u00E5", "u00E6", "u00E7", "u00E8", "u00E9", "u00EA", "u00EB", "u00EC", "u00ED",
         "u00EE", "u00EF", "u00F0", "u00F1", "u00F2", "u00F3", "u00F4", "u00F5", "u00F6", "u00F8", "u00F9",
         "u00FA", "u00FB", "u00FC", "u00FD", "u00FE", "u00FF", "u0100", "u0101", "u0102", "u0103", "u0104",
         "u0105", "u0106", "u0107", "u0108", "u0109", "u010A", "u010B", "u010C", "u010D", "u010E", "u010F",
         "u0110", "u0111", "u0112", "u0113", "u0114", "u0115", "u0116", "u0117", "u0118", "u0119", "u011A",
         "u011B", "u011C", "u011D", "u011E", "u011F", "u0120", "u0121", "u0122", "u0123", "u0124", "u0125",
         "u0126", "u0127", "u0128", "u0129", "u012A", "u012B", "u012C", "u012D", "u012E", "u012F", "u0130",
         "u0131", "u0132", "u0133", "u0134", "u0135", "u0136", "u0137", "u0138", "u0139", "u013A", "u013B",
         "u013C", "u013D", "u013E", "u013F", "u0140", "u0141", "u0142", "u0143", "u0144", "u0145", "u0146",
         "u0147", "u0148", "u0149", "u014A", "u014B", "u014C", "u014D", "u014E", "u014F", "u0150", "u0151",
         "u0152", "u0153", "u0154", "u0155", "u0156", "u0157", "u0158", "u0159", "u015A", "u015B", "u015C",
         "u015D", "u015E", "u015F", "u0160", "u0161", "u0162", "u0163", "u0164", "u0165", "u0166", "u0167",
         "u0168", "u0169", "u016A", "u016B", "u016C", "u016D", "u016E", "u016F", "u0170", "u0171", "u0172",
         "u0173", "u0174", "u0175", "u0176", "u0177", "u0178", "u0179", "u017A", "u017B", "u017C", "u017D",
         "u017E", "u017F", "u0180", "u0181", "u0182", "u0183", "u0184", "u0185", "u0186", "u0187", "u0188",
         "u0189", "u018A", "u018B", "u018C", "u018D", "u018E", "u018F", "u0190", "u0191", "u0192", "u0193",
         "u0194", "u0195", "u0196", "u0197", "u0198", "u0199", "u019A", "u019B", "u019C", "u019D", "u019E",
         "u019F", "u01A0", "u01A1", "u01A2", "u01A3", "u01A4", "u01A5", "u01A6", "u01A7", "u01A8", "u01A9",
         "u01AA", "u01AB", "u01AC", "u01AD", "u01AE", "u01AF", "u01B0", "u01B1", "u01B2", "u01B3", "u01B4",
         "u01B5", "u01B6", "u01B7", "u01B8", "u01B9", "u01BA", "u01BC", "u01BD", "u01BE", "u01BF", "u01C4",
         "u01C5", "u01C6", "u01C7", "u01C8", "u01C9", "u01CA", "u01CB", "u01CC", "u01CD", "u01CE", "u01CF",
         "u01D0", "u01D1", "u01D2", "u01D3", "u01D4", "u01D5", "u01D6", "u01D7", "u01D8", "u01D9", "u01DA",
         "u01DB", "u01DC", "u01DD", "u01DE", "u01DF", "u01E0", "u01E1", "u01E2", "u01E3", "u01E4", "u01E5",
         "u01E6", "u01E7", "u01E8", "u01E9", "u01EA", "u01EB", "u01EC", "u01ED", "u01EE", "u01EF", "u01F0",
         "u01F1", "u01F2", "u01F3", "u01F4", "u01F5", "u01F6", "u01F7", "u01F8", "u01F9", "u01FA", "u01FB",
         "u01FC", "u01FD", "u01FE", "u01FF", "u0200", "u0201", "u0202", "u0203", "u0204", "u0205", "u0206",
         "u0207", "u0208", "u0209", "u020A", "u020B", "u020C", "u020D", "u020E", "u020F", "u0210", "u0211",
         "u0212", "u0213", "u0214", "u0215", "u0216", "u0217", "u0218", "u0219", "u021A", "u021B", "u021C",
         "u021D", "u021E", "u021F", "u0220", "u0221", "u0222", "u0223", "u0224", "u0225", "u0226", "u0227",
         "u0228", "u0229", "u022A", "u022B", "u022C", "u022D", "u022E", "u022F", "u0230", "u0231", "u0232",
         "u0233", "u0234", "u0235", "u0236", "u0237", "u0238", "u0239", "u023A", "u023B", "u023C", "u023D",
         "u023E", "u023F", "u0240", "u0241", "u0242", "u0243", "u0244", "u0245", "u0246", "u0247", "u0248",
         "u0249", "u024A", "u024B", "u024C", "u024D", "u024E", "u024F", "u0250", "u0251", "u0252", "u0253",
         "u0254", "u0255", "u0256", "u0257", "u0258", "u0259", "u025A", "u025B", "u025C", "u025D", "u025E",
         "u025F", "u0260", "u0261", "u0262", "u0263", "u0264", "u0265", "u0266", "u0267", "u0268", "u0269",
         "u026A", "u026B", "u026C", "u026D", "u026E", "u026F", "u0270", "u0271", "u0272", "u0273", "u0274",
         "u0275", "u0276", "u0277", "u0278", "u0279", "u027A", "u027B", "u027C", "u027D", "u027E", "u027F",
         "u0280", "u0281", "u0282", "u0283", "u0284", "u0285", "u0286", "u0287", "u0288", "u0289", "u028A",
         "u028B", "u028C", "u028D", "u028E", "u028F", "u0290", "u0291", "u0292", "u0293", "u0295", "u0296",
         "u0297", "u0298", "u0299", "u029A", "u029B", "u029C", "u029D", "u029E", "u029F", "u02A0", "u02A1",
         "u02A2", "u02A3", "u02A4", "u02A5", "u02A6", "u02A7", "u02A8", "u02A9", "u02AA", "u02AB", "u02AC",
         "u02AD", "u02AE", "u02AF", "u0370", "u0371", "u0372", "u0373", "u0376", "u0377", "u037B", "u037C",
         "u037D", "u037F", "u0386", "u0388", "u0389", "u038A", "u038C", "u038E", "u038F", "u0390", "u0391",
         "u0392", "u0393", "u0394", "u0395", "u0396", "u0397", "u0398", "u0399", "u039A", "u039B", "u039C",
         "u039D", "u039E", "u039F", "u03A0", "u03A1", "u03A3", "u03A4", "u03A5", "u03A6", "u03A7", "u03A8",
         "u03A9", "u03AA", "u03AB", "u03AC", "u03AD", "u03AE", "u03AF", "u03B0", "u03B1", "u03B2", "u03B3",
         "u03B4", "u03B5", "u03B6", "u03B7", "u03B8", "u03B9", "u03BA", "u03BB", "u03BC", "u03BD", "u03BE",
         "u03BF", "u03C0", "u03C1", "u03C2", "u03C3", "u03C4", "u03C5", "u03C6", "u03C7", "u03C8", "u03C9",
         "u03CA", "u03CB", "u03CC", "u03CD", "u03CE", "u03CF", "u03D0", "u03D1", "u03D2", "u03D3", "u03D4",
         "u03D5", "u03D6", "u03D7", "u03D8", "u03D9", "u03DA", "u03DB", "u03DC", "u03DD", "u03DE", "u03DF",
         "u03E0", "u03E1", "u03E2", "u03E3", "u03E4", "u03E5", "u03E6", "u03E7", "u03E8", "u03E9", "u03EA",
         "u03EB", "u03EC", "u03ED", "u03EE", "u03EF", "u03F0", "u03F1", "u03F2", "u03F3", "u03F4", "u03F5",
         "u03F7", "u03F8", "u03F9", "u03FA", "u03FB", "u03FC", "u03FD", "u03FE", "u03FF", "u0400", "u0401",
         "u0402", "u0403", "u0404", "u0405", "u0406", "u0407", "u0408", "u0409", "u040A", "u040B", "u040C",
         "u040D", "u040E", "u040F", "u0410", "u0411", "u0412", "u0413", "u0414", "u0415", "u0416", "u0417",
         "u0418", "u0419", "u041A", "u041B", "u041C", "u041D", "u041E", "u041F", "u0420", "u0421", "u0422",
         "u0423", "u0424", "u0425", "u0426", "u0427", "u0428", "u0429", "u042A", "u042B", "u042C", "u042D",
         "u042E", "u042F", "u0430", "u0431", "u0432", "u0433", "u0434", "u0435", "u0436", "u0437", "u0438",
         "u0439", "u043A", "u043B", "u043C", "u043D", "u043E", "u043F", "u0440", "u0441", "u0442", "u0443",
         "u0444", "u0445", "u0446", "u0447", "u0448", "u0449", "u044A", "u044B", "u044C", "u044D", "u044E",
         "u044F", "u0450", "u0451", "u0452", "u0453", "u0454", "u0455", "u0456", "u0457", "u0458", "u0459",
         "u045A", "u045B", "u045C", "u045D", "u045E", "u045F", "u0460", "u0461", "u0462", "u0463", "u0464",
         "u0465", "u0466", "u0467", "u0468", "u0469", "u046A", "u046B", "u046C", "u046D", "u046E", "u046F",
         "u0470", "u0471", "u0472", "u0473", "u0474", "u0475", "u0476", "u0477", "u0478", "u0479", "u047A",
         "u047B", "u047C", "u047D", "u047E", "u047F", "u0480", "u0481", "u048A", "u048B", "u048C", "u048D",
         "u048E", "u048F", "u0490", "u0491", "u0492", "u0493", "u0494", "u0495", "u0496", "u0497", "u0498",
         "u0499", "u049A", "u049B", "u049C", "u049D", "u049E", "u049F", "u04A0", "u04A1", "u04A2", "u04A3",
         "u04A4", "u04A5", "u04A6", "u04A7", "u04A8", "u04A9", "u04AA", "u04AB", "u04AC", "u04AD", "u04AE",
         "u04AF", "u04B0", "u04B1", "u04B2", "u04B3", "u04B4", "u04B5", "u04B6", "u04B7", "u04B8", "u04B9",
         "u04BA", "u04BB", "u04BC", "u04BD", "u04BE", "u04BF", "u04C0", "u04C1", "u04C2", "u04C3", "u04C4",
         "u04C5", "u04C6", "u04C7", "u04C8", "u04C9", "u04CA", "u04CB", "u04CC", "u04CD", "u04CE", "u04CF",
         "u04D0", "u04D1", "u04D2", "u04D3", "u04D4", "u04D5", "u04D6", "u04D7", "u04D8", "u04D9", "u04DA",
         "u04DB", "u04DC", "u04DD", "u04DE", "u04DF", "u04E0", "u04E1", "u04E2", "u04E3", "u04E4", "u04E5",
         "u04E6", "u04E7", "u04E8", "u04E9", "u04EA", "u04EB", "u04EC", "u04ED", "u04EE", "u04EF", "u04F0",
         "u04F1", "u04F2", "u04F3", "u04F4", "u04F5", "u04F6", "u04F7", "u04F8", "u04F9", "u04FA", "u04FB",
         "u04FC", "u04FD", "u04FE", "u04FF", "u0500", "u0501", "u0502", "u0503", "u0504", "u0505", "u0506",
         "u0507", "u0508", "u0509", "u050A", "u050B", "u050C", "u050D", "u050E", "u050F", "u0510", "u0511",
         "u0512", "u0513", "u0514", "u0515", "u0516", "u0517", "u0518", "u0519", "u051A", "u051B", "u051C",
         "u051D", "u051E", "u051F", "u0520", "u0521", "u0522", "u0523", "u0524", "u0525", "u0526", "u0527",
         "u0528", "u0529", "u052A", "u052B", "u052C", "u052D", "u052E", "u052F", "u0531", "u0532", "u0533",
         "u0534", "u0535", "u0536", "u0537", "u0538", "u0539", "u053A", "u053B", "u053C", "u053D", "u053E",
         "u053F", "u0540", "u0541", "u0542", "u0543", "u0544", "u0545", "u0546", "u0547", "u0548", "u0549",
         "u054A", "u054B", "u054C", "u054D", "u054E", "u054F", "u0550", "u0551", "u0552", "u0553", "u0554",
         "u0555", "u0556", "u0560", "u0561", "u0562", "u0563", "u0564", "u0565", "u0566", "u0567", "u0568",
         "u0569", "u056A", "u056B", "u056C", "u056D", "u056E", "u056F", "u0570", "u0571", "u0572", "u0573",
         "u0574", "u0575", "u0576", "u0577", "u0578", "u0579", "u057A", "u057B", "u057C", "u057D", "u057E",
         "u057F", "u0580", "u0581", "u0582", "u0583", "u0584", "u0585", "u0586", "u0587", "u0588", "u10A0",
         "u10A1", "u10A2", "u10A3", "u10A4", "u10A5", "u10A6", "u10A7", "u10A8", "u10A9", "u10AA", "u10AB",
         "u10AC", "u10AD", "u10AE", "u10AF", "u10B0", "u10B1", "u10B2", "u10B3", "u10B4", "u10B5", "u10B6",
         "u10B7", "u10B8", "u10B9", "u10BA", "u10BB", "u10BC", "u10BD", "u10BE", "u10BF", "u10C0", "u10C1",
         "u10C2", "u10C3", "u10C4", "u10C5", "u10C7", "u10CD", "u10D0", "u10D1", "u10D2", "u10D3", "u10D4",
         "u10D5", "u10D6", "u10D7", "u10D8", "u10D9", "u10DA", "u10DB", "u10DC", "u10DD", "u10DE", "u10DF",
         "u10E0", "u10E1", "u10E2", "u10E3", "u10E4", "u10E5", "u10E6", "u10E7", "u10E8", "u10E9", "u10EA",
         "u10EB", "u10EC", "u10ED", "u10EE", "u10EF", "u10F0", "u10F1", "u10F2", "u10F3", "u10F4", "u10F5",
         "u10F6", "u10F7", "u10F8", "u10F9", "u10FA", "u10FD", "u10FE", "u10FF", "u13A0", "u13A1", "u13A2",
         "u13A3", "u13A4", "u13A5", "u13A6", "u13A7", "u13A8", "u13A9", "u13AA", "u13AB", "u13AC", "u13AD",
         "u13AE", "u13AF", "u13B0", "u13B1", "u13B2", "u13B3", "u13B4", "u13B5", "u13B6", "u13B7", "u13B8",
         "u13B9", "u13BA", "u13BB", "u13BC", "u13BD", "u13BE", "u13BF", "u13C0", "u13C1", "u13C2", "u13C3",
         "u13C4", "u13C5", "u13C6", "u13C7", "u13C8", "u13C9", "u13CA", "u13CB", "u13CC", "u13CD", "u13CE",
         "u13CF", "u13D0", "u13D1", "u13D2", "u13D3", "u13D4", "u13D5", "u13D6", "u13D7", "u13D8", "u13D9",
         "u13DA", "u13DB", "u13DC", "u13DD", "u13DE", "u13DF", "u13E0", "u13E1", "u13E2", "u13E3", "u13E4",
         "u13E5", "u13E6", "u13E7", "u13E8", "u13E9", "u13EA", "u13EB", "u13EC", "u13ED", "u13EE", "u13EF",
         "u13F0", "u13F1", "u13F2", "u13F3", "u13F4", "u13F5", "u13F8", "u13F9", "u13FA", "u13FB", "u13FC",
         "u13FD", "u1C80", "u1C81", "u1C82", "u1C83", "u1C84", "u1C85", "u1C86", "u1C87", "u1C88", "u1C90",
         "u1C91", "u1C92", "u1C93", "u1C94", "u1C95", "u1C96", "u1C97", "u1C98", "u1C99", "u1C9A", "u1C9B",
         "u1C9C", "u1C9D", "u1C9E", "u1C9F", "u1CA0", "u1CA1", "u1CA2", "u1CA3", "u1CA4", "u1CA5", "u1CA6",
         "u1CA7", "u1CA8", "u1CA9", "u1CAA", "u1CAB", "u1CAC", "u1CAD", "u1CAE", "u1CAF", "u1CB0", "u1CB1",
         "u1CB2", "u1CB3", "u1CB4", "u1CB5", "u1CB6", "u1CB7", "u1CB8", "u1CB9", "u1CBA", "u1CBD", "u1CBE",
         "u1CBF", "u1D00", "u1D01", "u1D02", "u1D03", "u1D04", "u1D05", "u1D06", "u1D07", "u1D08", "u1D09",
         "u1D0A", "u1D0B", "u1D0C", "u1D0D", "u1D0E", "u1D0F", "u1D10", "u1D11", "u1D12", "u1D13", "u1D14",
         "u1D15", "u1D16", "u1D17", "u1D18", "u1D19", "u1D1A", "u1D1B", "u1D1C", "u1D1D", "u1D1E", "u1D1F",
         "u1D20", "u1D21", "u1D22", "u1D23", "u1D24", "u1D25", "u1D26", "u1D27", "u1D28", "u1D29", "u1D2A",
         "u1D2B", "u1D6B", "u1D6C", "u1D6D", "u1D6E", "u1D6F", "u1D70", "u1D71", "u1D72", "u1D73", "u1D74",
         "u1D75", "u1D76", "u1D77", "u1D79", "u1D7A", "u1D7B", "u1D7C", "u1D7D", "u1D7E", "u1D7F", "u1D80",
         "u1D81", "u1D82", "u1D83", "u1D84", "u1D85", "u1D86", "u1D87", "u1D88", "u1D89", "u1D8A", "u1D8B",
         "u1D8C", "u1D8D", "u1D8E", "u1D8F", "u1D90", "u1D91", "u1D92", "u1D93", "u1D94", "u1D95", "u1D96",
         "u1D97", "u1D98", "u1D99", "u1D9A", "u1E00", "u1E01", "u1E02", "u1E03", "u1E04", "u1E05", "u1E06",
         "u1E07", "u1E08", "u1E09", "u1E0A", "u1E0B", "u1E0C", "u1E0D", "u1E0E", "u1E0F", "u1E10", "u1E11",
         "u1E12", "u1E13", "u1E14", "u1E15", "u1E16", "u1E17", "u1E18", "u1E19", "u1E1A", "u1E1B", "u1E1C",
         "u1E1D", "u1E1E", "u1E1F", "u1E20", "u1E21", "u1E22", "u1E23", "u1E24", "u1E25", "u1E26", "u1E27",
         "u1E28", "u1E29", "u1E2A", "u1E2B", "u1E2C", "u1E2D", "u1E2E", "u1E2F", "u1E30", "u1E31", "u1E32",
         "u1E33", "u1E34", "u1E35", "u1E36", "u1E37", "u1E38", "u1E39", "u1E3A", "u1E3B", "u1E3C", "u1E3D",
         "u1E3E", "u1E3F", "u1E40", "u1E41", "u1E42", "u1E43", "u1E44", "u1E45", "u1E46", "u1E47", "u1E48",
         "u1E49", "u1E4A", "u1E4B", "u1E4C", "u1E4D", "u1E4E", "u1E4F", "u1E50", "u1E51", "u1E52", "u1E53",
         "u1E54", "u1E55", "u1E56", "u1E57", "u1E58", "u1E59", "u1E5A", "u1E5B", "u1E5C", "u1E5D", "u1E5E",
         "u1E5F", "u1E60", "u1E61", "u1E62", "u1E63", "u1E64", "u1E65", "u1E66", "u1E67", "u1E68", "u1E69",
         "u1E6A", "u1E6B", "u1E6C", "u1E6D", "u1E6E", "u1E6F", "u1E70", "u1E71", "u1E72", "u1E73", "u1E74",
         "u1E75", "u1E76", "u1E77", "u1E78", "u1E79", "u1E7A", "u1E7B", "u1E7C", "u1E7D", "u1E7E", "u1E7F",
         "u1E80", "u1E81", "u1E82", "u1E83", "u1E84", "u1E85", "u1E86", "u1E87", "u1E88", "u1E89", "u1E8A",
         "u1E8B", "u1E8C", "u1E8D", "u1E8E", "u1E8F", "u1E90", "u1E91", "u1E92", "u1E93", "u1E94", "u1E95",
         "u1E96", "u1E97", "u1E98", "u1E99", "u1E9A", "u1E9B", "u1E9C", "u1E9D", "u1E9E", "u1E9F", "u1EA0",
         "u1EA1", "u1EA2", "u1EA3", "u1EA4", "u1EA5", "u1EA6", "u1EA7", "u1EA8", "u1EA9", "u1EAA", "u1EAB",
         "u1EAC", "u1EAD", "u1EAE", "u1EAF", "u1EB0", "u1EB1", "u1EB2", "u1EB3", "u1EB4", "u1EB5", "u1EB6",
         "u1EB7", "u1EB8", "u1EB9", "u1EBA", "u1EBB", "u1EBC", "u1EBD", "u1EBE", "u1EBF", "u1EC0", "u1EC1",
         "u1EC2", "u1EC3", "u1EC4", "u1EC5", "u1EC6", "u1EC7", "u1EC8", "u1EC9", "u1ECA", "u1ECB", "u1ECC",
         "u1ECD", "u1ECE", "u1ECF", "u1ED0", "u1ED1", "u1ED2", "u1ED3", "u1ED4", "u1ED5", "u1ED6", "u1ED7",
         "u1ED8", "u1ED9", "u1EDA", "u1EDB", "u1EDC", "u1EDD", "u1EDE", "u1EDF", "u1EE0", "u1EE1", "u1EE2",
         "u1EE3", "u1EE4", "u1EE5", "u1EE6", "u1EE7", "u1EE8", "u1EE9", "u1EEA", "u1EEB", "u1EEC", "u1EED",
         "u1EEE", "u1EEF", "u1EF0", "u1EF1", "u1EF2", "u1EF3", "u1EF4", "u1EF5", "u1EF6", "u1EF7", "u1EF8",
         "u1EF9", "u1EFA", "u1EFB", "u1EFC", "u1EFD", "u1EFE", "u1EFF", "u1F00", "u1F01", "u1F02", "u1F03",
         "u1F04", "u1F05", "u1F06", "u1F07", "u1F08", "u1F09", "u1F0A", "u1F0B", "u1F0C", "u1F0D", "u1F0E",
         "u1F0F", "u1F10", "u1F11", "u1F12", "u1F13", "u1F14", "u1F15", "u1F18", "u1F19", "u1F1A", "u1F1B",
         "u1F1C", "u1F1D", "u1F20", "u1F21", "u1F22", "u1F23", "u1F24", "u1F25", "u1F26", "u1F27", "u1F28",
         "u1F29", "u1F2A", "u1F2B", "u1F2C", "u1F2D", "u1F2E", "u1F2F", "u1F30", "u1F31", "u1F32", "u1F33",
         "u1F34", "u1F35", "u1F36", "u1F37", "u1F38", "u1F39", "u1F3A", "u1F3B", "u1F3C", "u1F3D", "u1F3E",
         "u1F3F", "u1F40", "u1F41", "u1F42", "u1F43", "u1F44", "u1F45", "u1F48", "u1F49", "u1F4A", "u1F4B",
         "u1F4C", "u1F4D", "u1F50", "u1F51", "u1F52", "u1F53", "u1F54", "u1F55", "u1F56", "u1F57", "u1F59",
         "u1F5B", "u1F5D", "u1F5F", "u1F60", "u1F61", "u1F62", "u1F63", "u1F64", "u1F65", "u1F66", "u1F67",
         "u1F68", "u1F69", "u1F6A", "u1F6B", "u1F6C", "u1F6D", "u1F6E", "u1F6F", "u1F70", "u1F71", "u1F72",
         "u1F73", "u1F74", "u1F75", "u1F76", "u1F77", "u1F78", "u1F79", "u1F7A", "u1F7B", "u1F7C", "u1F7D",
         "u1F80", "u1F81", "u1F82", "u1F83", "u1F84", "u1F85", "u1F86", "u1F87", "u1F88", "u1F89", "u1F8A",
         "u1F8B", "u1F8C", "u1F8D", "u1F8E", "u1F8F", "u1F90", "u1F91", "u1F92", "u1F93", "u1F94", "u1F95",
         "u1F96", "u1F97", "u1F98", "u1F99", "u1F9A", "u1F9B", "u1F9C", "u1F9D", "u1F9E", "u1F9F", "u1FA0",
         "u1FA1", "u1FA2", "u1FA3", "u1FA4", "u1FA5", "u1FA6", "u1FA7", "u1FA8", "u1FA9", "u1FAA", "u1FAB",
         "u1FAC", "u1FAD", "u1FAE", "u1FAF", "u1FB0", "u1FB1", "u1FB2", "u1FB3", "u1FB4", "u1FB6", "u1FB7",
         "u1FB8", "u1FB9", "u1FBA", "u1FBB", "u1FBC", "u1FBE", "u1FC2", "u1FC3", "u1FC4", "u1FC6", "u1FC7",
         "u1FC8", "u1FC9", "u1FCA", "u1FCB", "u1FCC", "u1FD0", "u1FD1", "u1FD2", "u1FD3", "u1FD6", "u1FD7",
         "u1FD8", "u1FD9", "u1FDA", "u1FDB", "u1FE0", "u1FE1", "u1FE2", "u1FE3", "u1FE4", "u1FE5", "u1FE6",
         "u1FE7", "u1FE8", "u1FE9", "u1FEA", "u1FEB", "u1FEC", "u1FF2", "u1FF3", "u1FF4", "u1FF6", "u1FF7",
         "u1FF8", "u1FF9", "u1FFA", "u1FFB", "u1FFC", "u2102", "u2107", "u210A", "u210B", "u210C", "u210D",
         "u210E", "u210F", "u2110", "u2111", "u2112", "u2113", "u2115", "u2119", "u211A", "u211B", "u211C",
         "u211D", "u2124", "u2126", "u2128", "u212A", "u212B", "u212C", "u212D", "u212F", "u2130", "u2131",
         "u2132", "u2133", "u2134", "u2139", "u213C", "u213D", "u213E", "u213F", "u2145", "u2146", "u2147",
         "u2148", "u2149", "u214E", "u2160", "u2161", "u2162", "u2163", "u2164", "u2165", "u2166", "u2167",
         "u2168", "u2169", "u216A", "u216B", "u216C", "u216D", "u216E", "u216F", "u2170", "u2171", "u2172",
         "u2173", "u2174", "u2175", "u2176", "u2177", "u2178", "u2179", "u217A", "u217B", "u217C", "u217D",
         "u217E", "u217F", "u2183", "u2184", "u24B6", "u24B7", "u24B8", "u24B9", "u24BA", "u24BB", "u24BC",
         "u24BD", "u24BE", "u24BF", "u24C0", "u24C1", "u24C2", "u24C3", "u24C4", "u24C5", "u24C6", "u24C7",
         "u24C8", "u24C9", "u24CA", "u24CB", "u24CC", "u24CD", "u24CE", "u24CF", "u24D0", "u24D1", "u24D2",
         "u24D3", "u24D4", "u24D5", "u24D6", "u24D7", "u24D8", "u24D9", "u24DA", "u24DB", "u24DC", "u24DD",
         "u24DE", "u24DF", "u24E0", "u24E1", "u24E2", "u24E3", "u24E4", "u24E5", "u24E6", "u24E7", "u24E8",
         "u24E9", "u2C00", "u2C01", "u2C02", "u2C03", "u2C04", "u2C05", "u2C06", "u2C07", "u2C08", "u2C09",
         "u2C0A", "u2C0B", "u2C0C", "u2C0D", "u2C0E", "u2C0F", "u2C10", "u2C11", "u2C12", "u2C13", "u2C14",
         "u2C15", "u2C16", "u2C17", "u2C18", "u2C19", "u2C1A", "u2C1B", "u2C1C", "u2C1D", "u2C1E", "u2C1F",
         "u2C20", "u2C21", "u2C22", "u2C23", "u2C24", "u2C25", "u2C26", "u2C27", "u2C28", "u2C29", "u2C2A",
         "u2C2B", "u2C2C", "u2C2D", "u2C2E", "u2C2F", "u2C30", "u2C31", "u2C32", "u2C33", "u2C34", "u2C35",
         "u2C36", "u2C37", "u2C38", "u2C39", "u2C3A", "u2C3B", "u2C3C", "u2C3D", "u2C3E", "u2C3F", "u2C40",
         "u2C41", "u2C42", "u2C43", "u2C44", "u2C45", "u2C46", "u2C47", "u2C48", "u2C49", "u2C4A", "u2C4B",
         "u2C4C", "u2C4D", "u2C4E", "u2C4F", "u2C50", "u2C51", "u2C52", "u2C53", "u2C54", "u2C55", "u2C56",
         "u2C57", "u2C58", "u2C59", "u2C5A", "u2C5B", "u2C5C", "u2C5D", "u2C5E", "u2C5F", "u2C60", "u2C61",
         "u2C62", "u2C63", "u2C64", "u2C65", "u2C66", "u2C67", "u2C68", "u2C69", "u2C6A", "u2C6B", "u2C6C",
         "u2C6D", "u2C6E", "u2C6F", "u2C70", "u2C71", "u2C72", "u2C73", "u2C74", "u2C75", "u2C76", "u2C77",
         "u2C78", "u2C79", "u2C7A", "u2C7B", "u2C7E", "u2C7F", "u2C80", "u2C81", "u2C82", "u2C83", "u2C84",
         "u2C85", "u2C86", "u2C87", "u2C88", "u2C89", "u2C8A", "u2C8B", "u2C8C", "u2C8D", "u2C8E", "u2C8F",
         "u2C90", "u2C91", "u2C92", "u2C93", "u2C94", "u2C95", "u2C96", "u2C97", "u2C98", "u2C99", "u2C9A",
         "u2C9B", "u2C9C", "u2C9D", "u2C9E", "u2C9F", "u2CA0", "u2CA1", "u2CA2", "u2CA3", "u2CA4", "u2CA5",
         "u2CA6", "u2CA7", "u2CA8", "u2CA9", "u2CAA", "u2CAB", "u2CAC", "u2CAD", "u2CAE", "u2CAF", "u2CB0",
         "u2CB1", "u2CB2", "u2CB3", "u2CB4", "u2CB5", "u2CB6", "u2CB7", "u2CB8", "u2CB9", "u2CBA", "u2CBB",
         "u2CBC", "u2CBD", "u2CBE", "u2CBF", "u2CC0", "u2CC1", "u2CC2", "u2CC3", "u2CC4", "u2CC5", "u2CC6",
         "u2CC7", "u2CC8", "u2CC9", "u2CCA", "u2CCB", "u2CCC", "u2CCD", "u2CCE", "u2CCF", "u2CD0", "u2CD1",
         "u2CD2", "u2CD3", "u2CD4", "u2CD5", "u2CD6", "u2CD7", "u2CD8", "u2CD9", "u2CDA", "u2CDB", "u2CDC",
         "u2CDD", "u2CDE", "u2CDF", "u2CE0", "u2CE1", "u2CE2", "u2CE3", "u2CE4", "u2CEB", "u2CEC", "u2CED",
         "u2CEE", "u2CF2", "u2CF3", "u2D00", "u2D01", "u2D02", "u2D03", "u2D04", "u2D05", "u2D06", "u2D07",
         "u2D08", "u2D09", "u2D0A", "u2D0B", "u2D0C", "u2D0D", "u2D0E", "u2D0F", "u2D10", "u2D11", "u2D12",
         "u2D13", "u2D14", "u2D15", "u2D16", "u2D17", "u2D18", "u2D19", "u2D1A", "u2D1B", "u2D1C", "u2D1D",
         "u2D1E", "u2D1F", "u2D20", "u2D21", "u2D22", "u2D23", "u2D24", "u2D25", "u2D27", "u2D2D", "uA640",
         "uA641", "uA642", "uA643", "uA644", "uA645", "uA646", "uA647", "uA648", "uA649", "uA64A", "uA64B",
         "uA64C", "uA64D", "uA64E", "uA64F", "uA650", "uA651", "uA652", "uA653", "uA654", "uA655", "uA656",
         "uA657", "uA658", "uA659", "uA65A", "uA65B", "uA65C", "uA65D", "uA65E", "uA65F", "uA660", "uA661",
         "uA662", "uA663", "uA664", "uA665", "uA666", "uA667", "uA668", "uA669", "uA66A", "uA66B", "uA66C",
         "uA66D", "uA680", "uA681", "uA682", "uA683", "uA684", "uA685", "uA686", "uA687", "uA688", "uA689",
         "uA68A", "uA68B", "uA68C", "uA68D", "uA68E", "uA68F", "uA690", "uA691", "uA692", "uA693", "uA694",
         "uA695", "uA696", "uA697", "uA698", "uA699", "uA69A", "uA69B", "uA722", "uA723", "uA724", "uA725",
         "uA726", "uA727", "uA728", "uA729", "uA72A", "uA72B", "uA72C", "uA72D", "uA72E", "uA72F", "uA730",
         "uA731", "uA732", "uA733", "uA734", "uA735", "uA736", "uA737", "uA738", "uA739", "uA73A", "uA73B",
         "uA73C", "uA73D", "uA73E", "uA73F", "uA740", "uA741", "uA742", "uA743", "uA744", "uA745", "uA746",
         "uA747", "uA748", "uA749", "uA74A", "uA74B", "uA74C", "uA74D", "uA74E", "uA74F", "uA750", "uA751",
         "uA752", "uA753", "uA754", "uA755", "uA756", "uA757", "uA758", "uA759", "uA75A", "uA75B", "uA75C",
         "uA75D", "uA75E", "uA75F", "uA760", "uA761", "uA762", "uA763", "uA764", "uA765", "uA766", "uA767",
         "uA768", "uA769", "uA76A", "uA76B", "uA76C", "uA76D", "uA76E", "uA76F", "uA771", "uA772", "uA773",
         "uA774", "uA775", "uA776", "uA777", "uA778", "uA779", "uA77A", "uA77B", "uA77C", "uA77D", "uA77E",
         "uA77F", "uA780", "uA781", "uA782", "uA783", "uA784", "uA785", "uA786", "uA787", "uA78B", "uA78C",
         "uA78D", "uA78E", "uA790", "uA791", "uA792", "uA793", "uA794", "uA795", "uA796", "uA797", "uA798",
         "uA799", "uA79A", "uA79B", "uA79C", "uA79D", "uA79E", "uA79F", "uA7A0", "uA7A1", "uA7A2", "uA7A3",
         "uA7A4", "uA7A5", "uA7A6", "uA7A7", "uA7A8", "uA7A9", "uA7AA", "uA7AB", "uA7AC", "uA7AD", "uA7AE",
         "uA7AF", "uA7B0", "uA7B1", "uA7B2", "uA7B3", "uA7B4", "uA7B5", "uA7B6", "uA7B7", "uA7B8", "uA7B9",
         "uA7BA", "uA7BB", "uA7BC", "uA7BD", "uA7BE", "uA7BF", "uA7C0", "uA7C1", "uA7C2", "uA7C3", "uA7C4",
         "uA7C5", "uA7C6", "uA7C7", "uA7C8", "uA7C9", "uA7CA", "uA7D0", "uA7D1", "uA7D3", "uA7D5", "uA7D6",
         "uA7D7", "uA7D8", "uA7D9", "uA7F5", "uA7F6", "uA7FA", "uAB30", "uAB31", "uAB32", "uAB33", "uAB34",
         "uAB35", "uAB36", "uAB37", "uAB38", "uAB39", "uAB3A", "uAB3B", "uAB3C", "uAB3D", "uAB3E", "uAB3F",
         "uAB40", "uAB41", "uAB42", "uAB43", "uAB44", "uAB45", "uAB46", "uAB47", "uAB48", "uAB49", "uAB4A",
         "uAB4B", "uAB4C", "uAB4D", "uAB4E", "uAB4F", "uAB50", "uAB51", "uAB52", "uAB53", "uAB54", "uAB55",
         "uAB56", "uAB57", "uAB58", "uAB59", "uAB5A", "uAB60", "uAB61", "uAB62", "uAB63", "uAB64", "uAB65",
         "uAB66", "uAB67", "uAB68", "uAB70", "uAB71", "uAB72", "uAB73", "uAB74", "uAB75", "uAB76", "uAB77",
         "uAB78", "uAB79", "uAB7A", "uAB7B", "uAB7C", "uAB7D", "uAB7E", "uAB7F", "uAB80", "uAB81", "uAB82",
         "uAB83", "uAB84", "uAB85", "uAB86", "uAB87", "uAB88", "uAB89", "uAB8A", "uAB8B", "uAB8C", "uAB8D",
         "uAB8E", "uAB8F", "uAB90", "uAB91", "uAB92", "uAB93", "uAB94", "uAB95", "uAB96", "uAB97", "uAB98",
         "uAB99", "uAB9A", "uAB9B", "uAB9C", "uAB9D", "uAB9E", "uAB9F", "uABA0", "uABA1", "uABA2", "uABA3",
         "uABA4", "uABA5", "uABA6", "uABA7", "uABA8", "uABA9", "uABAA", "uABAB", "uABAC", "uABAD", "uABAE",
         "uABAF", "uABB0", "uABB1", "uABB2", "uABB3", "uABB4", "uABB5", "uABB6", "uABB7", "uABB8", "uABB9",
         "uABBA", "uABBB", "uABBC", "uABBD", "uABBE", "uABBF", "uFB00", "uFB01", "uFB02", "uFB03", "uFB04",
         "uFB05", "uFB06", "uFB13", "uFB14", "uFB15", "uFB16", "uFB17", "uFF21", "uFF22", "uFF23", "uFF24",
         "uFF25", "uFF26", "uFF27", "uFF28", "uFF29", "uFF2A", "uFF2B", "uFF2C", "uFF2D", "uFF2E", "uFF2F",
         "uFF30", "uFF31", "uFF32", "uFF33", "uFF34", "uFF35", "uFF36", "uFF37", "uFF38", "uFF39", "uFF3A",
         "uFF41", "uFF42", "uFF43", "uFF44", "uFF45", "uFF46", "uFF47", "uFF48", "uFF49", "uFF4A", "uFF4B",
         "uFF4C", "uFF4D", "uFF4E", "uFF4F", "uFF50", "uFF51", "uFF52", "uFF53", "uFF54", "uFF55", "uFF56",
         "uFF57", "uFF58", "uFF59", "uFF5A", "u10400", "u10401", "u10402", "u10403", "u10404", "u10405",
         "u10406", "u10407", "u10408", "u10409", "u1040A", "u1040B", "u1040C", "u1040D", "u1040E", "u1040F",
         "u10410", "u10411", "u10412", "u10413", "u10414", "u10415", "u10416", "u10417", "u10418", "u10419",
         "u1041A", "u1041B", "u1041C", "u1041D", "u1041E", "u1041F", "u10420", "u10421", "u10422", "u10423",
         "u10424", "u10425", "u10426", "u10427", "u10428", "u10429", "u1042A", "u1042B", "u1042C", "u1042D",
         "u1042E", "u1042F", "u10430", "u10431", "u10432", "u10433", "u10434", "u10435", "u10436", "u10437",
         "u10438", "u10439", "u1043A", "u1043B", "u1043C", "u1043D", "u1043E", "u1043F", "u10440", "u10441",
         "u10442", "u10443", "u10444", "u10445", "u10446", "u10447", "u10448", "u10449", "u1044A", "u1044B",
         "u1044C", "u1044D", "u1044E", "u1044F", "u104B0", "u104B1", "u104B2", "u104B3", "u104B4", "u104B5",
         "u104B6", "u104B7", "u104B8", "u104B9", "u104BA", "u104BB", "u104BC", "u104BD", "u104BE", "u104BF",
         "u104C0", "u104C1", "u104C2", "u104C3", "u104C4", "u104C5", "u104C6", "u104C7", "u104C8", "u104C9",
         "u104CA", "u104CB", "u104CC", "u104CD", "u104CE", "u104CF", "u104D0", "u104D1", "u104D2", "u104D3",
         "u104D8", "u104D9", "u104DA", "u104DB", "u104DC", "u104DD", "u104DE", "u104DF", "u104E0", "u104E1",
         "u104E2", "u104E3", "u104E4", "u104E5", "u104E6", "u104E7", "u104E8", "u104E9", "u104EA", "u104EB",
         "u104EC", "u104ED", "u104EE", "u104EF", "u104F0", "u104F1", "u104F2", "u104F3", "u104F4", "u104F5",
         "u104F6", "u104F7", "u104F8", "u104F9", "u104FA", "u104FB", "u10570", "u10571", "u10572", "u10573",
         "u10574", "u10575", "u10576", "u10577", "u10578", "u10579", "u1057A", "u1057C", "u1057D", "u1057E",
         "u1057F", "u10580", "u10581", "u10582", "u10583", "u10584", "u10585", "u10586", "u10587", "u10588",
         "u10589", "u1058A", "u1058C", "u1058D", "u1058E", "u1058F", "u10590", "u10591", "u10592", "u10594",
         "u10595", "u10597", "u10598", "u10599", "u1059A", "u1059B", "u1059C", "u1059D", "u1059E", "u1059F",
         "u105A0", "u105A1", "u105A3", "u105A4", "u105A5", "u105A6", "u105A7", "u105A8", "u105A9", "u105AA",
         "u105AB", "u105AC", "u105AD", "u105AE", "u105AF", "u105B0", "u105B1", "u105B3", "u105B4", "u105B5",
         "u105B6", "u105B7", "u105B8", "u105B9", "u105BB", "u105BC", "u10C80", "u10C81", "u10C82", "u10C83",
         "u10C84", "u10C85", "u10C86", "u10C87", "u10C88", "u10C89", "u10C8A", "u10C8B", "u10C8C", "u10C8D",
         "u10C8E", "u10C8F", "u10C90", "u10C91", "u10C92", "u10C93", "u10C94", "u10C95", "u10C96", "u10C97",
         "u10C98", "u10C99", "u10C9A", "u10C9B", "u10C9C", "u10C9D", "u10C9E", "u10C9F", "u10CA0", "u10CA1",
         "u10CA2", "u10CA3", "u10CA4", "u10CA5", "u10CA6", "u10CA7", "u10CA8", "u10CA9", "u10CAA", "u10CAB",
         "u10CAC", "u10CAD", "u10CAE", "u10CAF", "u10CB0", "u10CB1", "u10CB2", "u10CC0", "u10CC1", "u10CC2",
         "u10CC3", "u10CC4", "u10CC5", "u10CC6", "u10CC7", "u10CC8", "u10CC9", "u10CCA", "u10CCB", "u10CCC",
         "u10CCD", "u10CCE", "u10CCF", "u10CD0", "u10CD1", "u10CD2", "u10CD3", "u10CD4", "u10CD5", "u10CD6",
         "u10CD7", "u10CD8", "u10CD9", "u10CDA", "u10CDB", "u10CDC", "u10CDD", "u10CDE", "u10CDF", "u10CE0",
         "u10CE1", "u10CE2", "u10CE3", "u10CE4", "u10CE5", "u10CE6", "u10CE7", "u10CE8", "u10CE9", "u10CEA",
         "u10CEB", "u10CEC", "u10CED", "u10CEE", "u10CEF", "u10CF0", "u10CF1", "u10CF2", "u118A0", "u118A1",
         "u118A2", "u118A3", "u118A4", "u118A5", "u118A6", "u118A7", "u118A8", "u118A9", "u118AA", "u118AB",
         "u118AC", "u118AD", "u118AE", "u118AF", "u118B0", "u118B1", "u118B2", "u118B3", "u118B4", "u118B5",
         "u118B6", "u118B7", "u118B8", "u118B9", "u118BA", "u118BB", "u118BC", "u118BD", "u118BE", "u118BF",
         "u118C0", "u118C1", "u118C2", "u118C3", "u118C4", "u118C5", "u118C6", "u118C7", "u118C8", "u118C9",
         "u118CA", "u118CB", "u118CC", "u118CD", "u118CE", "u118CF", "u118D0", "u118D1", "u118D2", "u118D3",
         "u118D4", "u118D5", "u118D6", "u118D7", "u118D8", "u118D9", "u118DA", "u118DB", "u118DC", "u118DD",
         "u118DE", "u118DF", "u16E40", "u16E41", "u16E42", "u16E43", "u16E44", "u16E45", "u16E46", "u16E47",
         "u16E48", "u16E49", "u16E4A", "u16E4B", "u16E4C", "u16E4D", "u16E4E", "u16E4F", "u16E50", "u16E51",
         "u16E52", "u16E53", "u16E54", "u16E55", "u16E56", "u16E57", "u16E58", "u16E59", "u16E5A", "u16E5B",
         "u16E5C", "u16E5D", "u16E5E", "u16E5F", "u16E60", "u16E61", "u16E62", "u16E63", "u16E64", "u16E65",
         "u16E66", "u16E67", "u16E68", "u16E69", "u16E6A", "u16E6B", "u16E6C", "u16E6D", "u16E6E", "u16E6F",
         "u16E70", "u16E71", "u16E72", "u16E73", "u16E74", "u16E75", "u16E76", "u16E77", "u16E78", "u16E79",
         "u16E7A", "u16E7B", "u16E7C", "u16E7D", "u16E7E", "u16E7F", "u1D400", "u1D401", "u1D402", "u1D403",
         "u1D404", "u1D405", "u1D406", "u1D407", "u1D408", "u1D409", "u1D40A", "u1D40B", "u1D40C", "u1D40D",
         "u1D40E", "u1D40F", "u1D410", "u1D411", "u1D412", "u1D413", "u1D414", "u1D415", "u1D416", "u1D417",
         "u1D418", "u1D419", "u1D41A", "u1D41B", "u1D41C", "u1D41D", "u1D41E", "u1D41F", "u1D420", "u1D421",
         "u1D422", "u1D423", "u1D424", "u1D425", "u1D426", "u1D427", "u1D428", "u1D429", "u1D42A", "u1D42B",
         "u1D42C", "u1D42D", "u1D42E", "u1D42F", "u1D430", "u1D431", "u1D432", "u1D433", "u1D434", "u1D435",
         "u1D436", "u1D437", "u1D438", "u1D439", "u1D43A", "u1D43B", "u1D43C", "u1D43D", "u1D43E", "u1D43F",
         "u1D440", "u1D441", "u1D442", "u1D443", "u1D444", "u1D445", "u1D446", "u1D447", "u1D448", "u1D449",
         "u1D44A", "u1D44B", "u1D44C", "u1D44D", "u1D44E", "u1D44F", "u1D450", "u1D451", "u1D452", "u1D453",
         "u1D454", "u1D456", "u1D457", "u1D458", "u1D459", "u1D45A", "u1D45B", "u1D45C", "u1D45D", "u1D45E",
         "u1D45F", "u1D460", "u1D461", "u1D462", "u1D463", "u1D464", "u1D465", "u1D466", "u1D467", "u1D468",
         "u1D469", "u1D46A", "u1D46B", "u1D46C", "u1D46D", "u1D46E", "u1D46F", "u1D470", "u1D471", "u1D472",
         "u1D473", "u1D474", "u1D475", "u1D476", "u1D477", "u1D478", "u1D479", "u1D47A", "u1D47B", "u1D47C",
         "u1D47D", "u1D47E", "u1D47F", "u1D480", "u1D481", "u1D482", "u1D483", "u1D484", "u1D485", "u1D486",
         "u1D487", "u1D488", "u1D489", "u1D48A", "u1D48B", "u1D48C", "u1D48D", "u1D48E", "u1D48F", "u1D490",
         "u1D491", "u1D492", "u1D493", "u1D494", "u1D495", "u1D496", "u1D497", "u1D498", "u1D499", "u1D49A",
         "u1D49B", "u1D49C", "u1D49E", "u1D49F", "u1D4A2", "u1D4A5", "u1D4A6", "u1D4A9", "u1D4AA", "u1D4AB",
         "u1D4AC", "u1D4AE", "u1D4AF", "u1D4B0", "u1D4B1", "u1D4B2", "u1D4B3", "u1D4B4", "u1D4B5", "u1D4B6",
         "u1D4B7", "u1D4B8", "u1D4B9", "u1D4BB", "u1D4BD", "u1D4BE", "u1D4BF", "u1D4C0", "u1D4C1", "u1D4C2",
         "u1D4C3", "u1D4C5", "u1D4C6", "u1D4C7", "u1D4C8", "u1D4C9", "u1D4CA", "u1D4CB", "u1D4CC", "u1D4CD",
         "u1D4CE", "u1D4CF", "u1D4D0", "u1D4D1", "u1D4D2", "u1D4D3", "u1D4D4", "u1D4D5", "u1D4D6", "u1D4D7",
         "u1D4D8", "u1D4D9", "u1D4DA", "u1D4DB", "u1D4DC", "u1D4DD", "u1D4DE", "u1D4DF", "u1D4E0", "u1D4E1",
         "u1D4E2", "u1D4E3", "u1D4E4", "u1D4E5", "u1D4E6", "u1D4E7", "u1D4E8", "u1D4E9", "u1D4EA", "u1D4EB",
         "u1D4EC", "u1D4ED", "u1D4EE", "u1D4EF", "u1D4F0", "u1D4F1", "u1D4F2", "u1D4F3", "u1D4F4", "u1D4F5",
         "u1D4F6", "u1D4F7", "u1D4F8", "u1D4F9", "u1D4FA", "u1D4FB", "u1D4FC", "u1D4FD", "u1D4FE", "u1D4FF",
         "u1D500", "u1D501", "u1D502", "u1D503", "u1D504", "u1D505", "u1D507", "u1D508", "u1D509", "u1D50A",
         "u1D50D", "u1D50E", "u1D50F", "u1D510", "u1D511", "u1D512", "u1D513", "u1D514", "u1D516", "u1D517",
         "u1D518", "u1D519", "u1D51A", "u1D51B", "u1D51C", "u1D51E", "u1D51F", "u1D520", "u1D521", "u1D522",
         "u1D523", "u1D524", "u1D525", "u1D526", "u1D527", "u1D528", "u1D529", "u1D52A", "u1D52B", "u1D52C",
         "u1D52D", "u1D52E", "u1D52F", "u1D530", "u1D531", "u1D532", "u1D533", "u1D534", "u1D535", "u1D536",
         "u1D537", "u1D538", "u1D539", "u1D53B", "u1D53C", "u1D53D", "u1D53E", "u1D540", "u1D541", "u1D542",
         "u1D543", "u1D544", "u1D546", "u1D54A", "u1D54B", "u1D54C", "u1D54D", "u1D54E", "u1D54F", "u1D550",
         "u1D552", "u1D553", "u1D554", "u1D555", "u1D556", "u1D557", "u1D558", "u1D559", "u1D55A", "u1D55B",
         "u1D55C", "u1D55D", "u1D55E", "u1D55F", "u1D560", "u1D561", "u1D562", "u1D563", "u1D564", "u1D565",
         "u1D566", "u1D567", "u1D568", "u1D569", "u1D56A", "u1D56B", "u1D56C", "u1D56D", "u1D56E", "u1D56F",
         "u1D570", "u1D571", "u1D572", "u1D573", "u1D574", "u1D575", "u1D576", "u1D577", "u1D578", "u1D579",
         "u1D57A", "u1D57B", "u1D57C", "u1D57D", "u1D57E", "u1D57F", "u1D580", "u1D581", "u1D582", "u1D583",
         "u1D584", "u1D585", "u1D586", "u1D587", "u1D588", "u1D589", "u1D58A", "u1D58B", "u1D58C", "u1D58D",
         "u1D58E", "u1D58F", "u1D590", "u1D591", "u1D592", "u1D593", "u1D594", "u1D595", "u1D596", "u1D597",
         "u1D598", "u1D599", "u1D59A", "u1D59B", "u1D59C", "u1D59D", "u1D59E", "u1D59F", "u1D5A0", "u1D5A1",
         "u1D5A2", "u1D5A3", "u1D5A4", "u1D5A5", "u1D5A6", "u1D5A7", "u1D5A8", "u1D5A9", "u1D5AA", "u1D5AB",
         "u1D5AC", "u1D5AD", "u1D5AE", "u1D5AF", "u1D5B0", "u1D5B1", "u1D5B2", "u1D5B3", "u1D5B4", "u1D5B5",
         "u1D5B6", "u1D5B7", "u1D5B8", "u1D5B9", "u1D5BA", "u1D5BB", "u1D5BC", "u1D5BD", "u1D5BE", "u1D5BF",
         "u1D5C0", "u1D5C1", "u1D5C2", "u1D5C3", "u1D5C4", "u1D5C5", "u1D5C6", "u1D5C7", "u1D5C8", "u1D5C9",
         "u1D5CA", "u1D5CB", "u1D5CC", "u1D5CD", "u1D5CE", "u1D5CF", "u1D5D0", "u1D5D1", "u1D5D2", "u1D5D3",
         "u1D5D4", "u1D5D5", "u1D5D6", "u1D5D7", "u1D5D8", "u1D5D9", "u1D5DA", "u1D5DB", "u1D5DC", "u1D5DD",
         "u1D5DE", "u1D5DF", "u1D5E0", "u1D5E1", "u1D5E2", "u1D5E3", "u1D5E4", "u1D5E5", "u1D5E6", "u1D5E7",
         "u1D5E8", "u1D5E9", "u1D5EA", "u1D5EB", "u1D5EC", "u1D5ED", "u1D5EE", "u1D5EF", "u1D5F0", "u1D5F1",
         "u1D5F2", "u1D5F3", "u1D5F4", "u1D5F5", "u1D5F6", "u1D5F7", "u1D5F8", "u1D5F9", "u1D5FA", "u1D5FB",
         "u1D5FC", "u1D5FD", "u1D5FE", "u1D5FF", "u1D600", "u1D601", "u1D602", "u1D603", "u1D604", "u1D605",
         "u1D606", "u1D607", "u1D608", "u1D609", "u1D60A", "u1D60B", "u1D60C", "u1D60D", "u1D60E", "u1D60F",
         "u1D610", "u1D611", "u1D612", "u1D613", "u1D614", "u1D615", "u1D616", "u1D617", "u1D618", "u1D619",
         "u1D61A", "u1D61B", "u1D61C", "u1D61D", "u1D61E", "u1D61F", "u1D620", "u1D621", "u1D622", "u1D623",
         "u1D624", "u1D625", "u1D626", "u1D627", "u1D628", "u1D629", "u1D62A", "u1D62B", "u1D62C", "u1D62D",
         "u1D62E", "u1D62F", "u1D630", "u1D631", "u1D632", "u1D633", "u1D634", "u1D635", "u1D636", "u1D637",
         "u1D638", "u1D639", "u1D63A", "u1D63B", "u1D63C", "u1D63D", "u1D63E", "u1D63F", "u1D640", "u1D641",
         "u1D642", "u1D643", "u1D644", "u1D645", "u1D646", "u1D647", "u1D648", "u1D649", "u1D64A", "u1D64B",
         "u1D64C", "u1D64D", "u1D64E", "u1D64F", "u1D650", "u1D651", "u1D652", "u1D653", "u1D654", "u1D655",
         "u1D656", "u1D657", "u1D658", "u1D659", "u1D65A", "u1D65B", "u1D65C", "u1D65D", "u1D65E", "u1D65F",
         "u1D660", "u1D661", "u1D662", "u1D663", "u1D664", "u1D665", "u1D666", "u1D667", "u1D668", "u1D669",
         "u1D66A", "u1D66B", "u1D66C", "u1D66D", "u1D66E", "u1D66F", "u1D670", "u1D671", "u1D672", "u1D673",
         "u1D674", "u1D675", "u1D676", "u1D677", "u1D678", "u1D679", "u1D67A", "u1D67B", "u1D67C", "u1D67D",
         "u1D67E", "u1D67F", "u1D680", "u1D681", "u1D682", "u1D683", "u1D684", "u1D685", "u1D686", "u1D687",
         "u1D688", "u1D689", "u1D68A", "u1D68B", "u1D68C", "u1D68D", "u1D68E", "u1D68F", "u1D690", "u1D691",
         "u1D692", "u1D693", "u1D694", "u1D695", "u1D696", "u1D697", "u1D698", "u1D699", "u1D69A", "u1D69B",
         "u1D69C", "u1D69D", "u1D69E", "u1D69F", "u1D6A0", "u1D6A1", "u1D6A2", "u1D6A3", "u1D6A4", "u1D6A5",
         "u1D6A8", "u1D6A9", "u1D6AA", "u1D6AB", "u1D6AC", "u1D6AD", "u1D6AE", "u1D6AF", "u1D6B0", "u1D6B1",
         "u1D6B2", "u1D6B3", "u1D6B4", "u1D6B5", "u1D6B6", "u1D6B7", "u1D6B8", "u1D6B9", "u1D6BA", "u1D6BB",
         "u1D6BC", "u1D6BD", "u1D6BE", "u1D6BF", "u1D6C0", "u1D6C2", "u1D6C3", "u1D6C4", "u1D6C5", "u1D6C6",
         "u1D6C7", "u1D6C8", "u1D6C9", "u1D6CA", "u1D6CB", "u1D6CC", "u1D6CD", "u1D6CE", "u1D6CF", "u1D6D0",
         "u1D6D1", "u1D6D2", "u1D6D3", "u1D6D4", "u1D6D5", "u1D6D6", "u1D6D7", "u1D6D8", "u1D6D9", "u1D6DA",
         "u1D6DC", "u1D6DD", "u1D6DE", "u1D6DF", "u1D6E0", "u1D6E1", "u1D6E2", "u1D6E3", "u1D6E4", "u1D6E5",
         "u1D6E6", "u1D6E7", "u1D6E8", "u1D6E9", "u1D6EA", "u1D6EB", "u1D6EC", "u1D6ED", "u1D6EE", "u1D6EF",
         "u1D6F0", "u1D6F1", "u1D6F2", "u1D6F3", "u1D6F4", "u1D6F5", "u1D6F6", "u1D6F7", "u1D6F8", "u1D6F9",
         "u1D6FA", "u1D6FC", "u1D6FD", "u1D6FE", "u1D6FF", "u1D700", "u1D701", "u1D702", "u1D703", "u1D704",
         "u1D705", "u1D706", "u1D707", "u1D708", "u1D709", "u1D70A", "u1D70B", "u1D70C", "u1D70D", "u1D70E",
         "u1D70F", "u1D710", "u1D711", "u1D712", "u1D713", "u1D714", "u1D716", "u1D717", "u1D718", "u1D719",
         "u1D71A", "u1D71B", "u1D71C", "u1D71D", "u1D71E", "u1D71F", "u1D720", "u1D721", "u1D722", "u1D723",
         "u1D724", "u1D725", "u1D726", "u1D727", "u1D728", "u1D729", "u1D72A", "u1D72B", "u1D72C", "u1D72D",
         "u1D72E", "u1D72F", "u1D730", "u1D731", "u1D732", "u1D733", "u1D734", "u1D736", "u1D737", "u1D738",
         "u1D739", "u1D73A", "u1D73B", "u1D73C", "u1D73D", "u1D73E", "u1D73F", "u1D740", "u1D741", "u1D742",
         "u1D743", "u1D744", "u1D745", "u1D746", "u1D747", "u1D748", "u1D749", "u1D74A", "u1D74B", "u1D74C",
         "u1D74D", "u1D74E", "u1D750", "u1D751", "u1D752", "u1D753", "u1D754", "u1D755", "u1D756", "u1D757",
         "u1D758", "u1D759", "u1D75A", "u1D75B", "u1D75C", "u1D75D", "u1D75E", "u1D75F", "u1D760", "u1D761",
         "u1D762", "u1D763", "u1D764", "u1D765", "u1D766", "u1D767", "u1D768", "u1D769", "u1D76A", "u1D76B",
         "u1D76C", "u1D76D", "u1D76E", "u1D770", "u1D771", "u1D772", "u1D773", "u1D774", "u1D775", "u1D776",
         "u1D777", "u1D778", "u1D779", "u1D77A", "u1D77B", "u1D77C", "u1D77D", "u1D77E", "u1D77F", "u1D780",
         "u1D781", "u1D782", "u1D783", "u1D784", "u1D785", "u1D786", "u1D787", "u1D788", "u1D78A", "u1D78B",
         "u1D78C", "u1D78D", "u1D78E", "u1D78F", "u1D790", "u1D791", "u1D792", "u1D793", "u1D794", "u1D795",
         "u1D796", "u1D797", "u1D798", "u1D799", "u1D79A", "u1D79B", "u1D79C", "u1D79D", "u1D79E", "u1D79F",
         "u1D7A0", "u1D7A1", "u1D7A2", "u1D7A3", "u1D7A4", "u1D7A5", "u1D7A6", "u1D7A7", "u1D7A8", "u1D7AA",
         "u1D7AB", "u1D7AC", "u1D7AD", "u1D7AE", "u1D7AF", "u1D7B0", "u1D7B1", "u1D7B2", "u1D7B3", "u1D7B4",
         "u1D7B5", "u1D7B6", "u1D7B7", "u1D7B8", "u1D7B9", "u1D7BA", "u1D7BB", "u1D7BC", "u1D7BD", "u1D7BE",
         "u1D7BF", "u1D7C0", "u1D7C1", "u1D7C2", "u1D7C4", "u1D7C5", "u1D7C6", "u1D7C7", "u1D7C8", "u1D7C9",
         "u1D7CA", "u1D7CB", "u1DF00", "u1DF01", "u1DF02", "u1DF03", "u1DF04", "u1DF05", "u1DF06", "u1DF07",
         "u1DF08", "u1DF09", "u1DF0B", "u1DF0C", "u1DF0D", "u1DF0E", "u1DF0F", "u1DF10", "u1DF11", "u1DF12",
         "u1DF13", "u1DF14", "u1DF15", "u1DF16", "u1DF17", "u1DF18", "u1DF19", "u1DF1A", "u1DF1B", "u1DF1C",
         "u1DF1D", "u1DF1E", "u1E900", "u1E901", "u1E902", "u1E903", "u1E904", "u1E905", "u1E906", "u1E907",
         "u1E908", "u1E909", "u1E90A", "u1E90B", "u1E90C", "u1E90D", "u1E90E", "u1E90F", "u1E910", "u1E911",
         "u1E912", "u1E913", "u1E914", "u1E915", "u1E916", "u1E917", "u1E918", "u1E919", "u1E91A", "u1E91B",
         "u1E91C", "u1E91D", "u1E91E", "u1E91F", "u1E920", "u1E921", "u1E922", "u1E923", "u1E924", "u1E925",
         "u1E926", "u1E927", "u1E928", "u1E929", "u1E92A", "u1E92B", "u1E92C", "u1E92D", "u1E92E", "u1E92F",
         "u1E930", "u1E931", "u1E932", "u1E933", "u1E934", "u1E935", "u1E936", "u1E937", "u1E938", "u1E939",
         "u1E93A", "u1E93B", "u1E93C", "u1E93D", "u1E93E", "u1E93F", "u1E940", "u1E941", "u1E942", "u1E943",
         "u1F130", "u1F131", "u1F132", "u1F133", "u1F134", "u1F135", "u1F136", "u1F137", "u1F138", "u1F139",
         "u1F13A", "u1F13B", "u1F13C", "u1F13D", "u1F13E", "u1F13F", "u1F140", "u1F141", "u1F142", "u1F143",
         "u1F144", "u1F145", "u1F146", "u1F147", "u1F148", "u1F149", "u1F150", "u1F151", "u1F152", "u1F153",
         "u1F154", "u1F155", "u1F156", "u1F157", "u1F158", "u1F159", "u1F15A", "u1F15B", "u1F15C", "u1F15D",
         "u1F15E", "u1F15F", "u1F160", "u1F161", "u1F162", "u1F163", "u1F164", "u1F165", "u1F166", "u1F167",
         "u1F168", "u1F169", "u1F170", "u1F171", "u1F172", "u1F173", "u1F174", "u1F175", "u1F176", "u1F177",
         "u1F178", "u1F179", "u1F17A", "u1F17B", "u1F17C", "u1F17D", "u1F17E", "u1F17F", "u1F180", "u1F181",
         "u1F182", "u1F183", "u1F184", "u1F185", "u1F186", "u1F187", "u1F188", "u1F189"},
     ignorable |->
        {"'", ".", ":", "^", "u0060", "u00A8", "u00AD", "u00AF", "u00B4", "u00B7", "u00B8", "u02B0", "u02B1",
         "u02B2", "u02B3", "u02B4", "u02B5", "u02B6", "u02B7", "u02B8", "u02B9", "u02BA", "u02BB", "u02BC",
         "u02BD", "u02BE", "u02BF", "u02C0", "u02C1", "u02C2", "u02C3", "u02C4", "u02C5", "u02C6", "u02C7",
         "u02C8", "u02C9", "u02CA", "u02CB", "u02CC", "u02CD", "u02CE", "u02CF", "u02D0", "u02D1", "u02D2",
         "u02D3", "u02D4", "u02D5", "u02D6", "u02D7", "u02D8", "u02D9", "u02DA", "u02DB", "u02DC", "u02DD",
         "u02DE", "u02DF", "u02E0", "u02E1", "u02E2", "u02E3", "u02E4", "u02E5", "u02E6", "u02E7", "u02E8",
         "u02E9", "u02EA", "u02EB", "u02EC", "u02ED", "u02EE", "u02EF", "u02F0", "u02F1", "u02F2", "u02F3",
         "u02F4", "u02F5", "u02F6", "u02F7", "u02F8", "u02F9", "u02FA", "u02FB", "u02FC", "u02FD", "u02FE",
         "u02FF", "u0300", "u0301", "u0302", "u0303", "u0304", "u0305", "u0306", "u0307", "u0308", "u0309",
         "u030A", "u030B", "u030C", "u030D", "u030E", "u030F", "u0310", "u0311", "u0312", "u0313", "u0314",
         "u0315", "u0316", "u0317", "u0318", "u0319", "u031A", "u031B", "u031C", "u031D", "u031E", "u031F",
         "u0320", "u0321", "u0322", "u0323", "u0324", "u0325", "u0326", "u0327", "u0328", "u0329", "u032A",
         "u032B", "u032C", "u032D", "u032E", "u032F", "u0330", "u0331", "u0332", "u0333", "u0334", "u0335",
         "u0336", "u0337", "u0338", "u0339", "u033A", "u033B", "u033C", "u033D", "u033E", "u033F", "u0340",
         "u0341", "u0342", "u0343", "u0344", "u0345", "u0346", "u0347", "u0348", "u0349", "u034A", "u034B",
         "u034C", "u034D", "u034E", "u034F", "u0350", "u0351", "u0352", "u0353", "u0354", "u0355", "u0356",
         "u0357", "u0358", "u0359", "u035A", "u035B", "u035C", "u035D", "u035E", "u035F", "u0360", "u0361",
         "u0362", "u0363", "u0364", "u0365", "u0366", "u0367", "u0368", "u0369", "u036A", "u036B", "u036C",
         "u036D", "u036E", "u036F", "u0374", "u0375", "u037A", "u0384", "u0385", "u0387", "u0483", "u0484",
         "u0485", "u0486", "u0487", "u0488", "u0489", "u0559", "u055F", "u0591", "u0592", "u0593", "u0594",
         "u0595", "u0596", "u0597", "u0598", "u0599", "u059A", "u059B", "u059C", "u059D", "u059E", "u059F",
         "u05A0", "u05A1", "u05A2", "u05A3", "u05A4", "u05A5", "u05A6", "u05A7", "u05A8", "u05A9", "u05AA",
         "u05AB", "u05AC", "u05AD", "u05AE", "u05AF", "u05B0", "u05B1", "u05B2", "u05B3", "u05B4", "u05B5",
         "u05B6", "u05B7", "u05B8", "u05B9", "u05BA", "u05BB", "u05BC", "u05BD", "u05BF", "u05C1", "u05C2",
         "u05C4", "u05C5", "u05C7", "u05F4", "u0600", "u0601", "u0602", "u0603", "u0604", "u0605", "u0610",
         "u0611", "u0612", "u0613", "u0614", "u0615", "u0616", "u0617", "u0618", "u0619", "u061A", "u061C",
         "u0640", "u064B", "u064C", "u064D", "u064E", "u064F", "u0650", "u0651", "u0652", "u0653", "u0654",
         "u0655", "u0656", "u0657", "u0658", "u0659", "u065A", "u065B", "u065C", "u065D", "u065E", "u065F",
         "u0670", "u06D6", "u06D7", "u06D8", "u06D9", "u06DA", "u06DB", "u06DC", "u06DD", "u06DF", "u06E0",
         "u06E1", "u06E2", "u06E3", "u06E4", "u06E5", "u06E6", "u06E7", "u06E8", "u06EA", "u06EB", "u06EC",
         "u06ED", "u070F", "u0711", "u0730", "u0731", "u0732", "u0733", "u0734", "u0735", "u0736", "u0737",
         "u0738", "u0739", "u073A", "u073B", "u073C", "u073D", "u073E", "u073F", "u0740", "u0741", "u0742",
         "u0743", "u0744", "u0745", "u0746", "u0747", "u0748", "u0749", "u074A", "u07A6", "u07A7", "u07A8",
         "u07A9", "u07AA", "u07AB", "u07AC", "u07AD", "u07AE", "u07AF", "u07B0", "u07EB", "u07EC", "u07ED",
         "u07EE", "u07EF", "u07F0", "u07F1", "u07F2", "u07F3", "u07F4", "u07F5", "u07FA", "u07FD", "u0816",
         "u0817", "u0818", "u0819", "u081A", "u081B", "u081C", "u081D", "u081E", "u081F", "u0820", "u0821",
         "u0822", "u0823", "u0824", "u0825", "u0826", "u0827", "u0828", "u0829", "u082A", "u082B", "u082C",
         "u082D", "u0859", "u085A", "u085B", "u0888", "u0890", "u0891", "u0898", "u0899", "u089A", "u089B",
         "u089C", "u089D", "u089E", "u089F", "u08C9", "u08CA", "u08CB", "u08CC", "u08CD", "u08CE", "u08CF",
         "u08D0", "u08D1", "u08D2", "u08D3", "u08D4", "u08D5", "u08D6", "u08D7", "u08D8", "u08D9", "u08DA",
         "u08DB", "u08DC", "u08DD", "u08DE", "u08DF", "u08E0", "u08E1", "u08E2", "u08E3", "u08E4", "u08E5",
         "u08E6", "u08E7", "u08E8", "u08E9", "u08EA", "u08EB", "u08EC", "u08ED", "u08EE", "u08EF", "u08F0",
         "u08F1", "u08F2", "u08F3", "u08F4", "u08F5", "u08F6", "u08F7", "u08F8", "u08F9", "u08FA", "u08FB",
         "u08FC", "u08FD", "u08FE", "u08FF", "u0900", "u0901", "u0902", "u093A", "u093C", "u0941", "u0942",
         "u0943", "u0944", "u0945", "u0946", "u0947", "u0948", "u094D", "u0951", "u0952", "u0953", "u0954",
         "u0955", "u0956", "u0957", "u0962", "u0963", "u0971", "u0981", "u09BC", "u09C1", "u09C2", "u09C3",
         "u09C4", "u09CD", "u09E2", "u09E3", "u09FE", "u0A01", "u0A02", "u0A3C", "u0A41", "u0A42", "u0A47",
         "u0A48", "u0A4B", "u0A4C", "u0A4D", "u0A51", "u0A70", "u0A71", "u0A75", "u0A81", "u0A82", "u0ABC",
         "u0AC1", "u0AC2", "u0AC3", "u0AC4", "u0AC5", "u0AC7", "u0AC8", "u0ACD", "u0AE2", "u0AE3", "u0AFA",
         "u0AFB", "u0AFC", "u0AFD", "u0AFE", "u0AFF", "u0B01", "u0B3C", "u0B3F", "u0B41", "u0B42", "u0B43",
         "u0B44", "u0B4D", "u0B55", "u0B56", "u0B62", "u0B63", "u0B82", "u0BC0", "u0BCD", "u0C00", "u0C04",
         "u0C3C", "u0C3E", "u0C3F", "u0C40", "u0C46", "u0C47", "u0C48", "u0C4A", "u0C4B", "u0C4C", "u0C4D",
         "u0C55", "u0C56", "u0C62", "u0C63", "u0C81", "u0CBC", "u0CBF", "u0CC6", "u0CCC", "u0CCD", "u0CE2",
         "u0CE3", "u0D00", "u0D01", "u0D3B", "u0D3C", "u0D41", "u0D42", "u0D43", "u0D44", "u0D4D", "u0D62",
         "u0D63", "u0D81", "u0DCA", "u0DD2", "u0DD3", "u0DD4", "u0DD6", "u0E31", "u0E34", "u0E35", "u0E36",
         "u0E37", "u0E38", "u0E39", "u0E3A", "u0E46", "u0E47", "u0E48", "u0E49", "u0E4A", "u0E4B", "u0E4C",
         "u0E4D", "u0E4E", "u0EB1", "u0EB4", "u0EB5", "u0EB6", "u0EB7", "u0EB8", "u0EB9", "u0EBA", "u0EBB",
         "u0EBC", "u0EC6", "u0EC8", "u0EC9", "u0ECA", "u0ECB", "u0ECC", "u0ECD", "u0F18", "u0F19", "u0F35",
         "u0F37", "u0F39", "u0F71", "u0F72", "u0F73", "u0F74", "u0F75", "u0F76", "u0F77", "u0F78", "u0F79",
         "u0F7A", "u0F7B", "u0F7C", "u0F7D", "u0F7E", "u0F80", "u0F81", "u0F82", "u0F83", "u0F84", "u0F86",
         "u0F87", "u0F8D", "u0F8E", "u0F8F", "u0F90", "u0F91", "u0F92", "u0F93", "u0F94", "u0F95", "u0F96",
         "u0F97", "u0F99", "u0F9A", "u0F9B", "u0F9C", "u0F9D", "u0F9E", "u0F9F", "u0FA0", "u0FA1", "u0FA2",
         "u0FA3", "u0FA4", "u0FA5", "u0FA6", "u0FA7", "u0FA8", "u0FA9", "u0FAA", "u0FAB", "u0FAC", "u0FAD",
         "u0FAE", "u0FAF", "u0FB0", "u0FB1", "u0FB2", "u0FB3", "u0FB4", "u0FB5", "u0FB6", "u0FB7", "u0FB8",
         "u0FB9", "u0FBA", "u0FBB", "u0FBC", "u0FC6", "u102D", "u102E", "u102F", "u1030", "u1032", "u1033",
         "u1034", "u1035", "u1036", "u1037", "u1039", "u103A", "u103D", "u103E", "u1058", "u1059", "u105E",
         "u105F", "u1060", "u1071", "u1072", "u1073", "u1074", "u1082", "u1085", "u1086", "u108D", "u109D",
         "u10FC", "u135D", "u135E", "u135F", "u1712", "u1713", "u1714", "u1732", "u1733", "u1752", "u1753",
         "u1772", "u1773", "u17B4", "u17B5", "u17B7", "u17B8", "u17B9", "u17BA", "u17BB", "u17BC", "u17BD",
         "u17C6", "u17C9", "u17CA", "u17CB", "u17CC", "u17CD", "u17CE", "u17CF", "u17D0", "u17D1", "u17D2",
         "u17D3", "u17D7", "u17DD", "u180B", "u180C", "u180D", "u180E", "u180F", "u1843", "u1885", "u1886",
         "u18A9", "u1920", "u1921", "u1922", "u1927", "u1928", "u1932", "u1939", "u193A", "u193B", "u1A17",
         "u1A18", "u1A1B", "u1A56", "u1A58", "u1A59", "u1A5A", "u1A5B", "u1A5C", "u1A5D", "u1A5E", "u1A60",
         "u1A62", "u1A65", "u1A66", "u1A67", "u1A68", "u1A69", "u1A6A", "u1A6B", "u1A6C", "u1A73", "u1A74",
         "u1A75", "u1A76", "u1A77", "u1A78", "u1A79", "u1A7A", "u1A7B", "u1A7C", "u1A7F", "u1AA7", "u1AB0",
         "u1AB1", "u1AB2", "u1AB3", "u1AB4", "u1AB5", "u1AB6", "u1AB7", "u1AB8", "u1AB9", "u1ABA", "u1ABB",
         "u1ABC", "u1ABD", "u1ABE", "u1ABF", "u1AC0", "u1AC1", "u1AC2", "u1AC3", "u1AC4", "u1AC5", "u1AC6",
         "u1AC7", "u1AC8", "u1AC9", "u1ACA", "u1ACB", "u1ACC", "u1ACD", "u1ACE", "u1B00", "u1B01", "u1B02",
         "u1B03", "u1B34", "u1B36", "u1B37", "u1B38", "u1B39", "u1B3A", "u1B3C", "u1B42", "u1B6B", "u1B6C",
         "u1B6D", "u1B6E", "u1B6F", "u1B70", "u1B71", "u1B72", "u1B73", "u1B80", "u1B81", "u1BA2", "u1BA3",
         "u1BA4", "u1BA5", "u1BA8", "u1BA9", "u1BAB", "u1BAC", "u1BAD", "u1BE6", "u1BE8", "u1BE9", "u1BED",
         "u1BEF", "u1BF0", "u1BF1", "u1C2C", "u1C2D", "u1C2E", "u1C2F", "u1C30", "u1C31", "u1C32", "u1C33",
         "u1C36", "u1C37", "u1C78", "u1C79", "u1C7A", "u1C7B", "u1C7C", "u1C7D", "u1CD0", "u1CD1", "u1CD2",
         "u1CD4", "u1CD5", "u1CD6", "u1CD7", "u1CD8", "u1CD9", "u1CDA", "u1CDB", "u1CDC", "u1CDD", "u1CDE",
         "u1CDF", "u1CE0", "u1CE2", "u1CE3", "u1CE4", "u1CE5", "u1CE6", "u1CE7", "u1CE8", "u1CED", "u1CF4",
         "u1CF8", "u1CF9", "u1D2C", "u1D2D", "u1D2E", "u1D2F", "u1D30", "u1D31", "u1D32", "u1D33", "u1D34",
         "u1D35", "u1D36", "u1D37", "u1D38", "u1D39", "u1D3A", "u1D3B", "u1D3C", "u1D3D", "u1D3E", "u1D3F",
         "u1D40", "u1D41", "u1D42", "u1D43", "u1D44", "u1D45", "u1D46", "u1D47", "u1D48", "u1D49", "u1D4A",
         "u1D4B", "u1D4C", "u1D4D", "u1D4E", "u1D4F", "u1D50", "u1D51", "u1D52", "u1D53", "u1D54", "u1D55",
         "u1D56", "u1D57", "u1D58", "u1D59", "u1D5A", "u1D5B", "u1D5C", "u1D5D", "u1D5E", "u1D5F", "u1D60",
         "u1D61", "u1D62", "u1D63", "u1D64", "u1D65", "u1D66", "u1D67", "u1D68", "u1D69", "u1D6A", "u1D78",
         "u1D9B", "u1D9C", "u1D9D", "u1D9E", "u1D9F", "u1DA0", "u1DA1", "u1DA2", "u1DA3", "u1DA4", "u1DA5",
         "u1DA6", "u1DA7", "u1DA8", "u1DA9", "u1DAA", "u1DAB", "u1DAC", "u1DAD", "u1DAE", "u1DAF", "u1DB0",
         "u1DB1", "u1DB2", "u1DB3", "u1DB4", "u1DB5", "u1DB6", "u1DB7", "u1DB8", "u1DB9", "u1DBA", "u1DBB",
         "u1DBC", "u1DBD", "u1DBE", "u1DBF", "u1DC0", "u1DC1", "u1DC2", "u1DC3", "u1DC4", "u1DC5", "u1DC6",
         "u1DC7", "u1DC8", "u1DC9", "u1DCA", "u1DCB", "u1DCC", "u1DCD", "u1DCE", "u1DCF", "u1DD0", "u1DD1",
         "u1DD2", "u1DD3", "u1DD4", "u1DD5", "u1DD6", "u1DD7", "u1DD8", "u1DD9", "u1DDA", "u1DDB", "u1DDC",
         "u1DDD", "u1DDE", "u1DDF", "u1DE0", "u1DE1", "u1DE2", "u1DE3", "u1DE4", "u1DE5", "u1DE6", "u1DE7",
         "u1DE8", "u1DE9", "u1DEA", "u1DEB", "u1DEC", "u1DED", "u1DEE", "u1DEF", "u1DF0", "u1DF1", "u1DF2",
         "u1DF3", "u1DF4", "u1DF5", "u1DF6", "u1DF7", "u1DF8", "u1DF9", "u1DFA", "u1DFB", "u1DFC", "u1DFD",
         "u1DFE", "u1DFF", "u1FBD", "u1FBF", "u1FC0", "u1FC1", "u1FCD", "u1FCE", "u1FCF", "u1FDD", "u1FDE",
         "u1FDF", "u1FED", "u1FEE", "u1FEF", "u1FFD", "u1FFE", "u200B", "u200C", "u200D", "u200E", "u200F",
         "u2018", "u2019", "u2024", "u2027", "u202A", "u202B", "u202C", "u202D", "u202E", "u2060", "u2061",
         "u2062", "u2063", "u2064", "u2066", "u2067", "u2068", "u2069", "u206A", "u206B", "u206C", "u206D",
         "u206E", "u206F", "u2071", "u207F", "u2090", "u2091", "u2092", "u2093", "u2094", "u2095", "u2096",
         "u2097", "u2098", "u2099", "u209A", "u209B", "u209C", "u20D0", "u20D1", "u20D2", "u20D3", "u20D4",
         "u20D5", "u20D6", "u20D7", "u20D8", "u20D9", "u20DA", "u20DB", "u20DC", "u20DD", "u20DE", "u20DF",
         "u20E0", "u20E1", "u20E2", "u20E3", "u20E4", "u20E5", "u20E6", "u20E7", "u20E8", "u20E9", "u20EA",
         "u20EB", "u20EC", "u20ED", "u20EE", "u20EF", "u20F0", "u2C7C", "u2C7D", "u2CEF", "u2CF0", "u2CF1",
         "u2D6F", "u2D7F", "u2DE0", "u2DE1", "u2DE2", "u2DE3", "u2DE4", "u2DE5", "u2DE6", "u2DE7", "u2DE8",
         "u2DE9", "u2DEA", "u2DEB", "u2DEC", "u2DED", "u2DEE", "u2DEF", "u2DF0", "u2DF1", "u2DF2", "u2DF3",
         "u2DF4", "u2DF5", "u2DF6", "u2DF7", "u2DF8", "u2DF9", "u2DFA", "u2DFB", "u2DFC", "u2DFD", "u2DFE",
         "u2DFF", "u2E2F", "u3005", "u302A", "u302B", "u302C", "u302D", "u3031", "u3032", "u3033", "u3034",
         "u3035", "u303B", "u3099", "u309A", "u309B", "u309C", "u309D", "u309E", "u30FC", "u30FD", "u30FE",
         "uA015", "uA4F8", "uA4F9", "uA4FA", "uA4FB", "uA4FC", "uA4FD", "uA60C", "uA66F", "uA670", "uA671",
         "uA672", "uA674", "uA675", "uA676", "uA677", "uA678", "uA679", "uA67A", "uA67B", "uA67C", "uA67D",
         "uA67F", "uA69C", "uA69D", "uA69E", "uA69F", "uA6F0", "uA6F1", "uA700", "uA701", "uA702", "uA703",
         "uA704", "uA705", "uA706", "uA707", "uA708", "uA709", "uA70A", "uA70B", "uA70C", "uA70D", "uA70E",
         "uA70F", "uA710", "uA711", "uA712", "uA713", "uA714", "uA715", "uA716", "uA717", "uA718", "uA719",
         "uA71A", "uA71B", "uA71C", "uA71D", "uA71E", "uA71F", "uA720", "uA721", "uA770", "uA788", "uA789",
         "uA78A", "uA7F2", "uA7F3", "uA7F4", "uA7F8", "uA7F9", "uA802", "uA806", "uA80B", "uA825", "uA826",
         "uA82C", "uA8C4", "uA8C5", "uA8E0", "uA8E1", "uA8E2", "uA8E3", "uA8E4", "uA8E5", "uA8E6", "uA8E7",
         "uA8E8", "uA8E9", "uA8EA", "uA8EB", "uA8EC", "uA8ED", "uA8EE", "uA8EF", "uA8F0", "uA8F1", "uA8FF",
         "uA926", "uA927", "uA928", "uA929", "uA92A", "uA92B", "uA92C", "uA92D", "uA947", "uA948", "uA949",
         "uA94A", "uA94B", "uA94C", "uA94D", "uA94E", "uA94F", "uA950", "uA951", "uA980", "uA981", "uA982",
         "uA9B3", "uA9B6", "uA9B7", "uA9B8", "uA9B9", "uA9BC", "uA9BD", "uA9CF", "uA9E5", "uA9E6", "uAA29",
         "uAA2A", "uAA2B", "uAA2C", "uAA2D", "uAA2E", "uAA31", "uAA32", "uAA35", "uAA36", "uAA43", "uAA4C",
         "uAA70", "uAA7C", "uAAB0", "uAAB2", "uAAB3", "uAAB4", "uAAB7", "uAAB8", "uAABE", "uAABF", "uAAC1",
         "uAADD", "uAAEC", "uAAED", "uAAF3", "uAAF4", "uAAF6", "uAB5B", "uAB5C", "uAB5D", "uAB5E", "uAB5F",
         "uAB69", "uAB6A", "uAB6B", "uABE5", "uABE8", "uABED", "uFB1E", "uFBB2", "uFBB3", "uFBB4", "uFBB5",
         "uFBB6", "uFBB7", "uFBB8", "uFBB9", "uFBBA", "uFBBB", "uFBBC", "uFBBD", "uFBBE", "uFBBF", "uFBC0",
         "uFBC1", "uFBC2", "uFE00", "uFE01", "uFE02", "uFE03", "uFE04", "uFE05", "uFE06", "uFE07", "uFE08",
         "uFE09", "uFE0A", "uFE0B", "uFE0C", "uFE0D", "uFE0E", "uFE0F", "uFE13", "uFE20", "uFE21", "uFE22",
         "uFE23", "uFE24", "uFE25", "uFE26", "uFE27", "uFE28", "uFE29", "uFE2A", "uFE2B", "uFE2C", "uFE2D",
         "uFE2E", "uFE2F", "uFE52", "uFE55", "uFEFF", "uFF07", "uFF0E", "uFF1A", "uFF3E", "uFF40", "uFF70",
         "uFF9E", "uFF9F", "uFFE3", "uFFF9", "uFFFA", "uFFFB", "u101FD", "u102E0", "u10376", "u10377",
         "u10378", "u10379", "u1037A", "u10780", "u10781", "u10782", "u10783", "u10784", "u10785", "u10787",
         "u10788", "u10789", "u1078A", "u1078B", "u1078C", "u1078D", "u1078E", "u1078F", "u10790", "u10791",
         "u10792", "u10793", "u10794", "u10795", "u10796", "u10797", "u10798", "u10799", "u1079A", "u1079B",
         "u1079C", "u1079D", "u1079E", "u1079F", "u107A0", "u107A1", "u107A2", "u107A3", "u107A4", "u107A5",
         "u107A6", "u107A7", "u107A8", "u107A9", "u107AA", "u107AB", "u107AC", "u107AD", "u107AE", "u107AF",
         "u107B0", "u107B2", "u107B3", "u107B4", "u107B5", "u107B6", "u107B7", "u107B8", "u107B9", "u107BA",
         "u10A01", "u10A02", "u10A03", "u10A05", "u10A06", "u10A0C", "u10A0D", "u10A0E", "u10A0F", "u10A38",
         "u10A39", "u10A3A", "u10A3F", "u10AE5", "u10AE6", "u10D24", "u10D25", "u10D26", "u10D27", "u10EAB",
         "u10EAC", "u10F46", "u10F47", "u10F48", "u10F49", "u10F4A", "u10F4B", "u10F4C", "u10F4D", "u10F4E",
         "u10F4F", "u10F50", "u10F82", "u10F83", "u10F84", "u10F85", "u11001", "u11038", "u11039", "u1103A",
         "u1103B", "u1103C", "u1103D", "u1103E", "u1103F", "u11040", "u11041", "u11042", "u11043", "u11044",
         "u11045", "u11046", "u11070", "u11073", "u11074", "u1107F", "u11080", "u11081", "u110B3", "u110B4",
         "u110B5", "u110B6", "u110B9", "u110BA", "u110BD", "u110C2", "u110CD", "u11100", "u11101", "u11102",
         "u11127", "u11128", "u11129", "u1112A", "u1112B", "u1112D", "u1112E", "u1112F", "u11130", "u11131",
         "u11132", "u11133", "u11134", "u11173", "u11180", "u11181", "u111B6", "u111B7", "u111B8", "u111B9",
         "u111BA", "u111BB", "u111BC", "u111BD", "u111BE", "u111C9", "u111CA", "u111CB", "u111CC", "u111CF",
         "u1122F", "u11230", "u11231", "u11234", "u11236", "u11237", "u1123E", "u112DF", "u112E3", "u112E4",
         "u112E5", "u112E6", "u112E7", "u112E8", "u112E9", "u112EA", "u11300", "u11301", "u1133B", "u1133C",
         "u11340", "u11366", "u11367", "u11368", "u11369", "u1136A", "u1136B", "u1136C", "u11370", "u11371",
         "u11372", "u11373", "u11374", "u11438", "u11439", "u1143A", "u1143B", "u1143C", "u1143D", "u1143E",
         "u1143F", "u11442", "u11443", "u11444", "u11446", "u1145E", "u114B3", "u114B4", "u114B5", "u114B6",
         "u114B7", "u114B8", "u114BA", "u114BF", "u114C0", "u114C2", "u114C3", "u115B2", "u115B3", "u115B4",
         "u115B5", "u115BC", "u115BD", "u115BF", "u115C0", "u115DC", "u115DD", "u11633", "u11634", "u11635",
         "u11636", "u11637", "u11638", "u11639", "u1163A", "u1163D", "u1163F", "u11640", "u116AB", "u116AD",
         "u116B0", "u116B1", "u116B2", "u116B3", "u116B4", "u116B5", "u116B7", "u1171D", "u1171E", "u1171F",
         "u11722", "u11723", "u11724", "u11725", "u11727", "u11728", "u11729", "u1172A", "u1172B", "u1182F",
         "u11830", "u11831", "u11832", "u11833", "u11834", "u11835", "u11836", "u11837", "u11839", "u1183A",
         "u1193B", "u1193C", "u1193E", "u11943", "u119D4", "u119D5", "u119D6", "u119D7", "u119DA", "u119DB",
         "u119E0", "u11A01", "u11A02", "u11A03", "u11A04", "u11A05", "u11A06", "u11A07", "u11A08", "u11A09",
         "u11A0A", "u11A33", "u11A34", "u11A35", "u11A36", "u11A37", "u11A38", "u11A3B", "u11A3C", "u11A3D",
         "u11A3E", "u11A47", "u11A51", "u11A52", "u11A53", "u11A54", "u11A55", "u11A56", "u11A59", "u11A5A",
         "u11A5B", "u11A8A", "u11A8B", "u11A8C", "u11A8D", "u11A8E", "u11A8F", "u11A90", "u11A91", "u11A92",
         "u11A93", "u11A94", "u11A95", "u11A96", "u11A98", "u11A99", "u11C30", "u11C31", "u11C32", "u11C33",
         "u11C34", "u11C35", "u11C36", "u11C38", "u11C39", "u11C3A", "u11C3B", "u11C3C", "u11C3D", "u11C3F",
         "u11C92", "u11C93", "u11C94", "u11C95", "u11C96", "u11C97", "u11C98", "u11C99", "u11C9A", "u11C9B",
         "u11C9C", "u11C9D", "u11C9E", "u11C9F", "u11CA0", "u11CA1", "u11CA2", "u11CA3", "u11CA4", "u11CA5",
         "u11CA6", "u11CA7", "u11CAA", "u11CAB", "u11CAC", "u11CAD", "u11CAE", "u11CAF", "u11CB0", "u11CB2",
         "u11CB3", "u11CB5", "u11CB6", "u11D31", "u11D32", "u11D33", "u11D34", "u11D35", "u11D36", "u11D3A",
         "u11D3C", "u11D3D", "u11D3F", "u11D40", "u11D41", "u11D42", "u11D43", "u11D44", "u11D45", "u11D47",
         "u11D90", "u11D91", "u11D95", "u11D97", "u11EF3", "u11EF4", "u13430", "u13431", "u13432", "u13433",
         "u13434", "u13435", "u13436", "u13437", "u13438", "u16AF0", "u16AF1", "u16AF2", "u16AF3", "u16AF4",
         "u16B30", "u16B31", "u16B32", "u16B33", "u16B34", "u16B35", "u16B36", "u16B40", "u16B41", "u16B42",
         "u16B43", "u16F4F", "u16F8F", "u16F90", "u16F91", "u16F92", "u16F93", "u16F94", "u16F95", "u16F96",
         "u16F97", "u16F98", "u16F99", "u16F9A", "u16F9B", "u16F9C", "u16F9D", "u16F9E", "u16F9F", "u16FE0",
         "u16FE1", "u16FE3", "u16FE4", "u1AFF0", "u1AFF1", "u1AFF2", "u1AFF3", "u1AFF5", "u1AFF6", "u1AFF7",
         "u1AFF8", "u1AFF9", "u1AFFA", "u1AFFB", "u1AFFD", "u1AFFE", "u1BC9D", "u1BC9E", "u1BCA0", "u1BCA1",
         "u1BCA2", "u1BCA3", "u1CF00", "u1CF01", "u1CF02", "u1CF03", "u1CF04", "u1CF05", "u1CF06", "u1CF07",
         "u1CF08", "u1CF09", "u1CF0A", "u1CF0B", "u1CF0C", "u1CF0D", "u1CF0E", "u1CF0F", "u1CF10", "u1CF11",
         "u1CF12", "u1CF13", "u1CF14", "u1CF15", "u1CF16", "u1CF17", "u1CF18", "u1CF19", "u1CF1A", "u1CF1B",
         "u1CF1C", "u1CF1D", "u1CF1E", "u1CF1F", "u1CF20", "u1CF21", "u1CF22", "u1CF23", "u1CF24", "u1CF25",
         "u1CF26", "u1CF27", "u1CF28", "u1CF29", "u1CF2A", "u1CF2B", "u1CF2C", "u1CF2D", "u1CF30", "u1CF31",
         "u1CF32", "u1CF33", "u1CF34", "u1CF35", "u1CF36", "u1CF37", "u1CF38", "u1CF39", "u1CF3A", "u1CF3B",
         "u1CF3C", "u1CF3D", "u1CF3E", "u1CF3F", "u1CF40", "u1CF41", "u1CF42", "u1CF43", "u1CF44", "u1CF45",
         "u1CF46", "u1D167", "u1D168", "u1D169", "u1D173", "u1D174", "u1D175", "u1D176", "u1D177", "u1D178",
         "u1D179", "u1D17A", "u1D17B", "u1D17C", "u1D17D", "u1D17E", "u1D17F", "u1D180", "u1D181", "u1D182",
         "u1D185", "u1D186", "u1D187", "u1D188", "u1D189", "u1D18A", "u1D18B", "u1D1AA", "u1D1AB", "u1D1AC",
         "u1D1AD", "u1D242", "u1D243", "u1D244", "u1DA00", "u1DA01", "u1DA02", "u1DA03", "u1DA04", "u1DA05",
         "u1DA06", "u1DA07", "u1DA08", "u1DA09", "u1DA0A", "u1DA0B", "u1DA0C", "u1DA0D", "u1DA0E", "u1DA0F",
         "u1DA10", "u1DA11", "u1DA12", "u1DA13", "u1DA14", "u1DA15", "u1DA16", "u1DA17", "u1DA18", "u1DA19",
         "u1DA1A", "u1DA1B", "u1DA1C", "u1DA1D", "u1DA1E", "u1DA1F", "u1DA20", "u1DA21", "u1DA22", "u1DA23",
         "u1DA24", "u1DA25", "u1DA26", "u1DA27", "u1DA28", "u1DA29", "u1DA2A", "u1DA2B", "u1DA2C", "u1DA2D",
         "u1DA2E", "u1DA2F", "u1DA30", "u1DA31", "u1DA32", "u1DA33", "u1DA34", "u1DA35", "u1DA36", "u1DA3B",
         "u1DA3C", "u1DA3D", "u1DA3E", "u1DA3F", "u1DA40", "u1DA41", "u1DA42", "u1DA43", "u1DA44", "u1DA45",
         "u1DA46", "u1DA47", "u1DA48", "u1DA49", "u1DA4A", "u1DA4B", "u1DA4C", "u1DA4D", "u1DA4E", "u1DA4F",
         "u1DA50", "u1DA51", "u1DA52", "u1DA53", "u1DA54", "u1DA55", "u1DA56", "u1DA57", "u1DA58", "u1DA59",
         "u1DA5A", "u1DA5B", "u1DA5C", "u1DA5D", "u1DA5E", "u1DA5F", "u1DA60", "u1DA61", "u1DA62", "u1DA63",
         "u1DA64", "u1DA65", "u1DA66", "u1DA67", "u1DA68", "u1DA69", "u1DA6A", "u1DA6B", "u1DA6C", "u1DA75",
         "u1DA84", "u1DA9B", "u1DA9C", "u1DA9D", "u1DA9E", "u1DA9F", "u1DAA1", "u1DAA2", "u1DAA3", "u1DAA4",
         "u1DAA5", "u1DAA6", "u1DAA7", "u1DAA8", "u1DAA9", "u1DAAA", "u1DAAB", "u1DAAC", "u1DAAD", "u1DAAE",
         "u1DAAF", "u1E000", "u1E001", "u1E002", "u1E003", "u1E004", "u1E005", "u1E006", "u1E008", "u1E009",
         "u1E00A", "u1E00B", "u1E00C", "u1E00D", "u1E00E", "u1E00F", "u1E010", "u1E011", "u1E012", "u1E013",
         "u1E014", "u1E015", "u1E016", "u1E017", "u1E018", "u1E01B", "u1E01C", "u1E01D", "u1E01E", "u1E01F",
         "u1E020", "u1E021", "u1E023", "u1E024", "u1E026", "u1E027", "u1E028", "u1E029", "u1E02A", "u1E130",
         "u1E131", "u1E132", "u1E133", "u1E134", "u1E135", "u1E136", "u1E137", "u1E138", "u1E139", "u1E13A",
         "u1E13B", "u1E13C", "u1E13D", "u1E2AE", "u1E2EC", "u1E2ED", "u1E2EE", "u1E2EF", "u1E8D0", "u1E8D1",
         "u1E8D2", "u1E8D3", "u1E8D4", "u1E8D5", "u1E8D6", "u1E944", "u1E945", "u1E946", "u1E947", "u1E948",
         "u1E949", "u1E94A", "u1E94B", "u1F3FB", "u1F3FC", "u1F3FD", "u1F3FE", "u1F3FF", "uE0001", "uE0020",
         "uE0021", "uE0022", "uE0023", "uE0024", "uE0025", "uE0026", "uE0027", "uE0028", "uE0029", "uE002A",
         "uE002B", "uE002C", "uE002D", "uE002E", "uE002F", "uE0030", "uE0031", "uE0032", "uE0033", "uE0034",
         "uE0035", "uE0036", "uE0037", "uE0038", "uE0039", "uE003A", "uE003B", "uE003C", "uE003D", "uE003E",
         "uE003F", "uE0040", "uE0041", "uE0042", "uE0043", "uE0044", "uE0045", "uE0046", "uE0047", "uE0048",
         "uE0049", "uE004A", "uE004B", "uE004C", "uE004D", "uE004E", "uE004F", "uE0050", "uE0051", "uE0052",
         "uE0053", "uE0054", "uE0055", "uE0056", "uE0057", "uE0058", "uE0059", "uE005A", "uE005B", "uE005C",
         "uE005D", "uE005E", "uE005F", "uE0060", "uE0061", "uE0062", "uE0063", "uE0064", "uE0065", "uE0066",
         "uE0067", "uE0068", "uE0069", "uE006A", "uE006B", "uE006C", "uE006D", "uE006E", "uE006F", "uE0070",
         "uE0071", "uE0072", "uE0073", "uE0074", "uE0075", "uE0076", "uE0077", "uE0078", "uE0079", "uE007A",
         "uE007B", "uE007C", "uE007D", "uE007E", "uE007F", "uE0100", "uE0101", "uE0102", "uE0103", "uE0104",
         "uE0105", "uE0106", "uE0107", "uE0108", "uE0109", "uE010A", "uE010B", "uE010C", "uE010D", "uE010E",
         "uE010F", "uE0110", "uE0111", "uE0112", "uE0113", "uE0114", "uE0115", "uE0116", "uE0117", "uE0118",
         "uE0119", "uE011A", "uE011B", "uE011C", "uE011D", "uE011E", "uE011F", "uE0120", "uE0121", "uE0122",
         "uE0123", "uE0124", "uE0125", "uE0126", "uE0127", "uE0128", "uE0129", "uE012A", "uE012B", "uE012C",
         "uE012D", "uE012E", "uE012F", "uE0130", "uE0131", "uE0132", "uE0133", "uE0134", "uE0135", "uE0136",
         "uE0137", "uE0138", "uE0139", "uE013A", "uE013B", "uE013C", "uE013D", "uE013E", "uE013F", "uE0140",
         "uE0141", "uE0142", "uE0143", "uE0144", "uE0145", "uE0146", "uE0147", "uE0148", "uE0149", "uE014A",
         "uE014B", "uE014C", "uE014D", "uE014E", "uE014F", "uE0150", "uE0151", "uE0152", "uE0153", "uE0154",
         "uE0155", "uE0156", "uE0157", "uE0158", "uE0159", "uE015A", "uE015B", "uE015C", "uE015D", "uE015E",
         "uE015F", "uE0160", "uE0161", "uE0162", "uE0163", "uE0164", "uE0165", "uE0166", "uE0167", "uE0168",
         "uE0169", "uE016A", "uE016B", "uE016C", "uE016D", "uE016E", "uE016F", "uE0170", "uE0171", "uE0172",
         "uE0173", "uE0174", "uE0175", "uE0176", "uE0177", "uE0178", "uE0179", "uE017A", "uE017B", "uE017C",
         "uE017D", "uE017E", "uE017F", "uE0180", "uE0181", "uE0182", "uE0183", "uE0184", "uE0185", "uE0186",
         "uE0187", "uE0188", "uE0189", "uE018A", "uE018B", "uE018C", "uE018D", "uE018E", "uE018F", "uE0190",
         "uE0191", "uE0192", "uE0193", "uE0194", "uE0195", "uE0196", "uE0197", "uE0198", "uE0199", "uE019A",
         "uE019B", "uE019C", "uE019D", "uE019E", "uE019F", "uE01A0", "uE01A1", "uE01A2", "uE01A3", "uE01A4",
         "uE01A5", "uE01A6", "uE01A7", "uE01A8", "uE01A9", "uE01AA", "uE01AB", "uE01AC", "uE01AD", "uE01AE",
         "uE01AF", "uE01B0", "uE01B1", "uE01B2", "uE01B3", "uE01B4", "uE01B5", "uE01B6", "uE01B7", "uE01B8",
         "uE01B9", "uE01BA", "uE01BB", "uE01BC", "uE01BD", "uE01BE", "uE01BF", "uE01C0", "uE01C1", "uE01C2",
         "uE01C3", "uE01C4", "uE01C5", "uE01C6", "uE01C7", "uE01C8", "uE01C9", "uE01CA", "uE01CB", "uE01CC",
         "uE01CD", "uE01CE", "uE01CF", "uE01D0", "uE01D1", "uE01D2", "uE01D3", "uE01D4", "uE01D5", "uE01D6",
         "uE01D7", "uE01D8", "uE01D9", "uE01DA", "uE01DB", "uE01DC", "uE01DD", "uE01DE", "uE01DF", "uE01E0",
         "uE01E1", "uE01E2", "uE01E3", "uE01E4", "uE01E5", "uE01E6", "uE01E7", "uE01E8", "uE01E9", "uE01EA",
         "uE01EB", "uE01EC", "uE01ED", "uE01EE", "uE01EF"},
     ignorecase |->
        [a |-> {"A", "a"}, b |-> {"B", "b"}, c |-> {"C", "c"}, d |-> {"D", "d"}, e |-> {"E", "e"},
         f |-> {"F", "f"}, g |-> {"G", "g"}, h |-> {"H", "h"}, i |-> {"I", "i", "u0130", "u0131"},
         j |-> {"J", "j"}, k |-> {"K", "k", "u212A"}, l |-> {"L", "l"}, m |-> {"M", "m"}, n |-> {"N", "n"},
         o |-> {"O", "o"}, p |-> {"P", "p"}, q |-> {"Q", "q"}, r |-> {"R", "r"}, s |-> {"S", "s", "u017F"},
         t |-> {"T", "t"}, u |-> {"U", "u"}, v |-> {"V", "v"}, w |-> {"W", "w"}, x |-> {"X", "x"},
         y |-> {"Y", "y"}, z |-> {"Z", "z"}]]

\* \d : a decimal digit of any script
IsDigit(c) == \E k \in 1..10 : c \in DecimalDigits[k]

\* sys.int_max_str_digits: the longest string of digits int() converts
int_max_str_digits == 4300

\* int(s) for a string of digits: kind "int" with the value, or kind "ValueError"
\* when the call raises (the empty string; more digits than int() converts)
int(ds) ==
    LET value[n \in 0..Len(ds)] ==
            IF n = 0 THEN 0
            ELSE 10 * value[n - 1] + (CHOOSE k \in 1..10 : ds[n] \in DecimalDigits[k]) - 1
    IN  IF ds = << >> \/ Len(ds) > int_max_str_digits
        THEN [kind |-> "ValueError", val |-> 0]
        ELSE [kind |-> "int", val |-> value[Len(ds)]]

\* max(numbers) for a non-empty list
max(ns) == CHOOSE m \in { ns[i] : i \in DOMAIN ns } : \A i \in DOMAIN ns : m >= ns[i]

(***************************************************************************)
(* Matching primitives.                                                    *)
(***************************************************************************)
\* the literal w occurs in t at position i
HasAt(t, i, w) == /\ i >= 1
                  /\ i + Len(w) - 1 <= Len(t)
                  /\ \A k \in 1..Len(w) : t[i + k - 1] = w[k]

\* re.search of a literal / the Python test  w in t
Contains(t, w) == \E i \in 1..Len(t) : HasAt(t, i, w)

\* re.search of an alternation of literals
ContainsAny(t, ws) == \E w \in ws : Contains(t, w)

\* re.search of  a.*?(b1|b2|...) : a, then any characters but a newline, then some b
ContainsGap(t, a, bs) ==
    \E i \in 1..Len(t) :
       /\ HasAt(t, i, a)
       /\ \E j \in (i + Len(a))..Len(t) :
             /\ \E b \in bs : HasAt(t, j, b)
             /\ \A k \in (i + Len(a))..(j - 1) : t[k] # "\n"

\* first position >= i that holds no digit (greedy \d+ or \d*)
RECURSIVE DigitsEnd(_, _)
DigitsEnd(t, i) == IF i <= Len(t) /\ IsDigit(t[i]) THEN DigitsEnd(t, i + 1) ELSE i

\* first position >= i that holds no white space (greedy \s*)
RECURSIVE SpacesEnd(_, _)
SpacesEnd(t, i) == IF i <= Len(t) /\ IsSpace(t[i]) THEN SpacesEnd(t, i + 1) ELSE i

\* an ordered alternation (w1|w2|...) tried at position i: the position after
\* the first alternative that matches, 0 when none does
RECURSIVE AltEnd(_, _, _)
AltEnd(t, i, alts) == IF alts = << >> THEN 0
                      ELSE IF HasAt(t, i, alts[1]) THEN i + Len(alts[1])
                      ELSE AltEnd(t, i, Tail(alts))

\* \d+\s*(w1|w2|...) tried at position i: the position after the match, 0 when
\* there is none.  Digits, white space and the first characters of the
\* alternatives are disjoint, so only the longest runs can match.
NumberThenAlt(t, i, alts) ==
    IF i <= Len(t) /\ IsDigit(t[i])
    THEN AltEnd(t, SpacesEnd(t, DigitsEnd(t, i)), alts)
    ELSE 0

(***************************************************************************)
(* normalize_text: NFKC, then runs of white space to one blank, then strip.*)
(* NFKC is the compatibility decomposition of every character, the         *)
(* canonical ordering of the combining marks, and the canonical            *)
(* composition of the result.                                              *)
(***************************************************************************)
\* unicodedata.combining(c), ucd being the database
combining(ucd, c) == IF c \in ucd.marks THEN ucd.combining[c] ELSE 0

\* the compatibility decomposition of the characters of t, one after the other
RECURSIVE decompose(_, _)
decompose(ucd, t) ==
    IF t = << >> THEN << >>
    ELSE (IF t[1] \in ucd.decomposed THEN ucd.decomposition[t[1]] ELSE << t[1] >>)
            \o decompose(ucd, Tail(t))

\* canonical ordering: every run of combining marks sorted by combining class,
\* marks of the same class in their order
canonical_order(ucd, t) ==
    LET before(i) == { j \in 1..(i - 1) : \A k \in j..i : combining(ucd, t[k]) # 0 }
        after(i) == { j \in (i + 1)..Len(t) : \A k \in i..j : combining(ucd, t[k]) # 0 }
        place(i) == i - Cardinality({ j \in before(i) :
                                        combining(ucd, t[j]) > combining(ucd, t[i]) })
                      + Cardinality({ j \in after(i) :
                                        combining(ucd, t[j]) < combining(ucd, t[i]) })
    IN  IF \A i \in DOMAIN t : combining(ucd, t[i]) = 0 THEN t
        ELSE [k \in DOMAIN t |-> t[CHOOSE i \in DOMAIN t : place(i) = k]]

\* canonical composition of t appended to o: s is the position in o of the last
\* starter (0 when there is none), last the combining class of the last character
\* appended after it (0 when none was).  A character composes with the starter
\* when nothing between them blocks it and the pair has a primary composite.
RECURSIVE compose(_, _, _, _, _)
compose(ucd, o, s, last, t) ==
    IF t = << >> THEN o
    ELSE IF /\ s > 0
            /\ (Len(o) = s \/ last < combining(ucd, t[1]))
            /\ t[1] \in ucd.composing
            /\ \E p \in ucd.composition[t[1]] : p[1] = o[s]
         THEN compose(ucd,
                      [o EXCEPT ![s] = (CHOOSE p \in ucd.composition[t[1]] : p[1] = o[s])[2]],
                      s, last, Tail(t))
         ELSE compose(ucd, Append(o, t[1]),
                      IF combining(ucd, t[1]) = 0 THEN Len(o) + 1 ELSE s,
                      combining(ucd, t[1]), Tail(t))

\* unicodedata.normalize('NFKC', t)
unicodedata_normalize(t) ==
    compose(unicodedata, << >>, 0, 0,
            canonical_order(unicodedata, decompose(unicodedata, t)))

\* re.sub(r'\s+', ' ', t)
RECURSIVE collapse_spaces(_)
collapse_spaces(t) ==
    IF t = << >> THEN << >>
    ELSE IF IsSpace(t[1])
         THEN << " " >> \o collapse_spaces(SubSeq(t, SpacesEnd(t, 1), Len(t)))
         ELSE << t[1] >> \o collapse_spaces(Tail(t))

\* str.strip()
RECURSIVE strip(_)
strip(t) == IF t = << >> THEN << >>
            ELSE IF IsSpace(t[1]) THEN strip(Tail(t))
            ELSE IF IsSpace(t[Len(t)]) THEN strip(SubSeq(t, 1, Len(t) - 1))
            ELSE t

\* a variant of normalize_text that strips without collapsing the white space
normalize_text_without_collapse(t) == strip(unicodedata_normalize(t))

normalize_text(t) == strip(collapse_spaces(unicodedata_normalize(t)))

(***************************************************************************)
(* extract_numbers (app4.py, app5.py).                                     *)
(***************************************************************************)
Counters    == << <<"u5339">>, <<"u676F">>, <<"u5C3E">>, <<"u500B">>, <<"u3064">> >>                    \* 匹|杯|尾|個|つ
KanjiDigits == << "u4E8C", "u4E09", "u56DB", "u4E94", "u516D", "u4E03", "u516B", "u4E5D", "u5341" >>   \* 二 .. 十

NoMatch == [end |-> 0, num |-> << >>]

\* try: numbers.append(int(match.group(1))) / except ValueError: what the loop body
\* appends for the digits of group 1, nothing when int() raises.  In app5.py the
\* handler tries int(match.group(1)) once more for a range, which raises again, and
\* looks for a kanji at the start of the match, which begins with a digit or 約.
try_int(ds) == IF int(ds).kind = "int" THEN << int(ds).val >> ELSE << >>

\* kanji_map: the value of the first key of the map that occurs in the match
kanji_map(g) == 1 + CHOOSE k \in 1..9 :
                      /\ Contains(g, << KanjiDigits[k] >>)
                      /\ \A j \in 1..(k - 1) : ~Contains(g, << KanjiDigits[j] >>)

\* Pattern p of the list tried at position i of t: end is the position after
\* the match (0 when there is none), num is what the loop body appends for that
\* match: one number, or nothing.
pattern_match(p, t, i) ==
    CASE p = 1 ->       \* (\d+)\s*(?:匹|杯|尾|個|つ)
           LET e == NumberThenAlt(t, i, Counters)
           IN  IF e = 0 THEN NoMatch
               ELSE [end |-> e, num |-> try_int(SubSeq(t, i, DigitsEnd(t, i) - 1))]
      [] p = 2 ->       \* 約\s*(\d+)
           IF HasAt(t, i, <<"u7D04">>)
           THEN LET s == SpacesEnd(t, i + 1)
                    e == DigitsEnd(t, s)
                IN  IF e = s THEN NoMatch
                    ELSE [end |-> e, num |-> try_int(SubSeq(t, s, e - 1))]
           ELSE NoMatch
      [] p = 3 ->       \* (\d+)\s*(?:くらい|ぐらい|ほど|程度|位)
           LET e == NumberThenAlt(t, i, << <<"u304F", "u3089", "u3044">>, <<"u3050", "u3089", "u3044">>, <<"u307B", "u3069">>, <<"u7A0B", "u5EA6">>, <<"u4F4D">> >>)
           IN  IF e = 0 THEN NoMatch
               ELSE [end |-> e, num |-> try_int(SubSeq(t, i, DigitsEnd(t, i) - 1))]
      [] p = 4 ->       \* (\d+)\s*(?:ずつ|づつ)
           LET e == NumberThenAlt(t, i, << <<"u305A", "u3064">>, <<"u3065", "u3064">> >>)
           IN  IF e = 0 THEN NoMatch
               ELSE [end |-> e, num |-> try_int(SubSeq(t, i, DigitsEnd(t, i) - 1))]
      [] p = 5 ->       \* (\d+)(?:〜|~)(\d+) : int(match.group(1)) is appended
           IF i <= Len(t) /\ IsDigit(t[i])
           THEN LET d == DigitsEnd(t, i)
                    s == AltEnd(t, d, << <<"u301C">>, <<"~">> >>)
                    e == IF s = 0 THEN 0 ELSE DigitsEnd(t, s)
                IN  IF s = 0 \/ e = s THEN NoMatch
                    ELSE [end |-> e, num |-> try_int(SubSeq(t, i, d - 1))]
           ELSE NoMatch
      [] p = 6 ->       \* (?:二|...|十)\s*(?:匹|杯|尾|個|つ) : no group 1, the handler maps the kanji
           IF i <= Len(t) /\ (\E k \in 1..9 : t[i] = KanjiDigits[k])
           THEN LET e == AltEnd(t, SpacesEnd(t, i + 1), Counters)
                IN  IF e = 0 THEN NoMatch
                    ELSE [end |-> e, num |-> << kanji_map(SubSeq(t, i, e - 1)) >>]
           ELSE NoMatch

\* re.finditer(pattern, text): the non-overlapping matches from left to right
RECURSIVE finditer(_, _, _)
finditer(p, t, pos) ==
    IF pos > Len(t) THEN << >>
    ELSE LET m == pattern_match(p, t, pos)
         IN  IF m.end > 0 THEN m.num \o finditer(p, t, m.end)
             ELSE finditer(p, t, pos + 1)

app4_extract_numbers(t) ==
    LET matches == finditer(1, t, 1) \o finditer(2, t, 1) \o finditer(3, t, 1)
                   \o finditer(4, t, 1)
    IN  IF matches # << >> THEN matches ELSE None

app5_extract_numbers(t) ==
    LET matches == finditer(1, t, 1) \o finditer(2, t, 1) \o finditer(3, t, 1)
                   \o finditer(4, t, 1) \o finditer(5, t, 1) \o finditer(6, t, 1)
    IN  IF matches # << >> THEN matches ELSE None

(***************************************************************************)
(* The semantic detectors (app4.py, app5.py).  Each joins its pattern      *)
(* groups into one alternation and reports whether it matches anywhere.    *)
(***************************************************************************)
\* a digit followed by one of the words: \d{1}匹 and the like
DigitThen(t, ws) == \E i \in 1..Len(t) : IsDigit(t[i]) /\ \E w \in ws : HasAt(t, i + 1, w)

\* a digit, white space, then one of the words: \d{1}\s*(?:匹|...)
DigitSpacesThen(t, ws) ==
    \E i \in 1..Len(t) : IsDigit(t[i]) /\ \E w \in ws : HasAt(t, SpacesEnd(t, i + 1), w)

\* w\d+(?:c1|c2|..) : the literal w, a number, one of the words; sp tells whether
\* white space may stand between the number and the word (\s*)
WordNumberThen(t, w, ws, sp) ==
    \E i \in 1..Len(t) :
       /\ HasAt(t, i, w)
       /\ LET s == i + Len(w)
              d == DigitsEnd(t, s)
          IN  /\ d > s
              /\ \/ \E c \in ws : HasAt(t, d, c)
                 \/ sp /\ \E c \in ws : HasAt(t, SpacesEnd(t, d), c)

detect_negation(t) ==
    \/ ContainsAny(t, { <<"u5168", "u304F">>, <<"u307E", "u3063", "u305F", "u304F">>, <<"u5168", "u7136">>, <<"u7686", "u7121">>, <<"u306A", "u3044">>, <<"u3044", "u306A", "u3044">>, <<"u898B", "u3048", "u306A", "u3044">> })   \* 全く|まったく|全然|皆無|ない|いない|見えない
    \/ ContainsAny(t, { <<"u898B", "u5F53", "u305F", "u3089", "u306A", "u3044">>, <<"u30BC", "u30ED">>, <<"0">>, <<"u4E0D", "u5728">> })                               \* 見当たらない|ゼロ|0|不在
    \/ ContainsAny(t, { <<"u5C45", "u306A", "u3044">>, <<"u51FA", "u306A", "u3044">>, <<"u59FF", "u304C", "u898B", "u3048", "u306A", "u3044">> })                                \* 居ない|出ない|姿が見えない
    \/ \E i \in 1..Len(t) :                                                                  \* あたり[一つ\d+]も
          /\ HasAt(t, i, <<"u3042", "u305F", "u308A">>)
          /\ i + 3 <= Len(t)
          /\ (t[i + 3] \in { "u4E00", "u3064", "+" } \/ IsDigit(t[i + 3]))
          /\ HasAt(t, i + 4, <<"u3082">>)
    \/ ContainsGap(t, <<"u6C17", "u914D">>, { <<"u306A", "u3057">>, <<"u7121", "u3057">>, <<"u306A", "u3044">>, <<"u7121", "u3044">>, <<"u7686", "u7121">> })                    \* 気配.*?(なし|無し|ない|無い|皆無)
    \/ ContainsAny(t, { <<"u306A", "u3057">>, <<"u7121", "u3057">>, <<"u30BC", "u30ED">>, <<"0", "u5339">>, <<"0", "u676F">> })                              \* なし|無し|ゼロ|0匹|0杯
    \/ ContainsGap(t, <<"u30A4", "u30AB">>, { <<"u306A", "u3057">>, <<"u7121", "u3057">>, <<"u3044", "u306A", "u3044">>, <<"u5C45", "u306A", "u3044">>, <<"u898B", "u3048", "u306A", "u3044">>,
                                <<"u898B", "u5F53", "u305F", "u3089", "u306A", "u3044">>, <<"u30BC", "u30ED">>, <<"0">> })                               \* イカ.*?(なし|無し|いない|居ない|見えない|見当たらない|ゼロ|0)
    \/ ContainsAny(t, { <<"u3044", "u304B", "u3044", "u306A", "u3044">>, <<"u30A4", "u30AB", "u3044", "u306A", "u3044">>, <<"u30A4", "u30AB", "u30BC", "u30ED">>, <<"u30A4", "u30AB", "u306F", "u3044", "u306A", "u3044">> })            \* いかいない|イカいない|イカゼロ|イカはいない
    \/ ContainsGap(t, <<"u4E00", "u5339", "u3082">>, { <<"u306A", "u3057">>, <<"u7121", "u3057">>, <<"u3044", "u306A", "u3044">>, <<"u898B", "u3048", "u306A", "u3044">>, <<"u53D6", "u308C", "u306A", "u3044">> })        \* 一匹も.*?(なし|無し|いない|見えない|取れない)
    \/ ContainsAny(t, { <<"u5E30">>, <<"u8AE6">>, <<"u64A4", "u53CE">> })                                                \* 帰|諦|撤収
    \/ ContainsGap(t, <<"u53D6", "u308C">>, { <<"u306A", "u304B", "u3063", "u305F">>, <<"u30BC", "u30ED">>, <<"0">>, <<"u306A", "u3044">> })                           \* 取れ.*?(なかった|ゼロ|0|ない)

SmallWords == { <<"u5C11", "u3057">>, <<"u5C11", "u306A", "u3044">>, <<"u3061", "u3089", "u307B", "u3089">>, <<"u308F", "u305A", "u304B">>, <<"u304B", "u308D", "u3046", "u3058", "u3066">>, <<"u6570", "u5339">>, <<"u6570", "u676F">>, <<"u6570", "u500B">>, <<"u30DD", "u30C4", "u30DD", "u30C4">>,
                <<"u5C11", "u91CF">>, <<"u5C11", "u306A", "u3081">>, <<"u5C11", "u306A", "u304B", "u3063", "u305F">>, <<"u50C5", "u304B">>, <<"u4E4F", "u3057", "u3044">> }
             \* 少し|少ない|ちらほら|わずか|かろうじて|数匹|数杯|数個|ポツポツ, 少量|少なめ|少なかった|僅か|乏しい

app4_detect_small_amount(t) ==
    \/ ContainsAny(t, SmallWords)
    \/ DigitThen(t, { <<"u5339">>, <<"u676F">> })                    \* \d{1}匹|\d{1}杯
    \/ WordNumberThen(t, <<"u4F55", "u3068", "u304B">>, { <<"u5339">> }, FALSE)     \* 何とか\d+匹

app5_detect_small_amount(t) ==
    \/ ContainsAny(t, SmallWords)
    \/ DigitSpacesThen(t, { <<"u5339">>, <<"u676F">>, <<"u5C3E">>, <<"u500B">>, <<"u3064">> })   \* \d{1}\s*(?:匹|杯|尾|個|つ)
    \/ WordNumberThen(t, <<"u4F55", "u3068", "u304B">>, { <<"u5339">>, <<"u676F">> }, TRUE)     \* 何とか\d+\s*(?:匹|杯)

NormalWords == { <<"u666E", "u901A">>, <<"u305D", "u3053", "u305D", "u3053">>, <<"u307E", "u3042", "u307E", "u3042">>, <<"u305D", "u308C", "u306A", "u308A">>, <<"u5E73", "u5747", "u7684">>, <<"u4F8B", "u5E74", "u4E26", "u307F">>, <<"u4E26", "u307F">>, <<"u6A19", "u6E96">>, <<"u901A", "u5E38">>,
                 <<"u3075", "u3064", "u3046">>, <<"u30CE", "u30FC", "u30DE", "u30EB">>, <<"u3044", "u3064", "u3082", "u901A", "u308A">>, <<"u3044", "u3064", "u3082", "u7A0B", "u5EA6">>, <<"u5341", "u6570">>, <<"u5341", "u5339", "u7A0B", "u5EA6">> }
             \* 普通|そこそこ|まあまあ|それなり|平均的|例年並み|並み|標準|通常, ふつう|ノーマル|いつも通り|いつも程度, 十数|十匹程度

app4_detect_normal_amount(t) ==
    \/ ContainsAny(t, NormalWords)
    \/ ContainsGap(t, <<"1", "0">>, { <<"2", "0">> })                  \* 10.*?20

app5_detect_normal_amount(t) ==
    \/ ContainsAny(t, NormalWords)
    \/ \E i \in 1..Len(t) :                            \* 10.*?20\s*(?:匹|杯)
          /\ HasAt(t, i, <<"1", "0">>)
          /\ \E j \in (i + 2)..Len(t) :
                /\ HasAt(t, j, <<"2", "0">>)
                /\ \E c \in { <<"u5339">>, <<"u676F">> } : HasAt(t, SpacesEnd(t, j + 2), c)
                /\ \A k \in (i + 2)..(j - 1) : t[k] # "\n"

detect_large_amount(t) ==
    ContainsAny(t, { <<"u591A", "u3044">>, <<"u305F", "u304F", "u3055", "u3093">>, <<"u3044", "u3063", "u3071", "u3044">>, <<"u591A", "u6570">>, <<"u591A", "u3081">>, <<"u5897", "u3048", "u3066", "u304D", "u305F">>, <<"u30A2", "u30C3", "u30D7">>,
                     <<"u3088", "u304F", "u7372", "u308C", "u308B">>, <<"u3088", "u304F", "u53D6", "u308C", "u308B">>, <<"u53D6", "u308C", "u51FA", "u3057", "u305F">>, <<"u53D6", "u308A", "u653E", "u984C">>, <<"u8C4A", "u5BCC">>,
                     <<"u582A", "u80FD">>, <<"u5922", "u4E2D">>, <<"u96C6", "u4E2D">>, <<"u5FD9", "u3057", "u3044">>, <<"u5897", "u52A0">>, <<"u5897", "u3048", "u305F">> })
    \* 多い|たくさん|いっぱい|多数|多め|増えてきた|アップ, よく獲れる|よく取れる|取れ出した|取り放題|豊富,
    \* 堪能|夢中|集中|忙しい, 増加|増えてきた|増えた

detect_very_large_amount(t) ==
    ContainsAny(t, { <<"u5927", "u91CF">>, <<"u7206">>, <<"u3059", "u3054", "u3044">>, <<"u51C4", "u3044">>, <<"u3059", "u3054", "u304F">>, <<"u51C4", "u304F">>, <<"u304B", "u306A", "u308A">>, <<"u76F8", "u5F53">>, <<"u8D85">>, <<"u975E", "u5E38", "u306B", "u591A", "u3044">>,
                     <<"u3046", "u3058", "u3083", "u3046", "u3058", "u3083">>, <<"u305F", "u3063", "u3077", "u308A">>, <<"u5C71", "u307B", "u3069">>, <<"u6EA2", "u308C", "u308B">>, <<"u3042", "u3075", "u308C", "u308B">>, <<"u30A4", "u30AB", "u3060", "u3089", "u3051">>,
                     <<"u7FA4", "u308C">>, <<"u6700", "u9AD8">>, <<"u591A", "u3059", "u304E">>, <<"u6CA2", "u5C71">>, <<"u904E", "u53BB", "u6700", "u9AD8">>, <<"u8A18", "u9332", "u7684">>,
                     <<"u5927", "u6F01">>, <<"u8C4A", "u6F01">>, <<"u53CE", "u7A6B", "u796D">>, <<"u3059", "u3054", "u3044", "u6570">>, <<"u62BC", "u3057", "u5BC4", "u305B", "u308B">>, <<"u96C6", "u307E", "u308A">>, <<"u96C6", "u5408">>, <<"u5BC6", "u96C6">> })
    \* 大量|爆|すごい|凄い|すごく|凄く|かなり|相当|超|非常に多い, うじゃうじゃ|たっぷり|山ほど|溢れる|あふれる|イカだらけ,
    \* 群れ|最高|多すぎ|沢山|過去最高|記録的, 大漁|豊漁|収穫祭|すごい数, 押し寄せる|集まり|集合|密集

(***************************************************************************)
(* detect_unrelated.                                                       *)
(***************************************************************************)
SquidWords   == { <<"u30A4", "u30AB">>, <<"u3044", "u304B">>, <<"u30DB", "u30BF", "u30EB", "u30A4", "u30AB">>, <<"u63AC">>, <<"u3059", "u304F", "u3044">>, <<"u5339">>, <<"u676F">> }        \* イカ|いか|ホタルイカ|掬|すくい|匹|杯
CatchWords   == { <<"u5339">>, <<"u676F">>, <<"u7372", "u308C">>, <<"u53D6", "u308C">>, <<"u53CE", "u7A6B">>, <<"u63AC">>, <<"u3059", "u304F", "u3044">> }              \* 匹|杯|獲れ|取れ|収穫|掬|すくい
\* ですか\?|\?|どう|情報求む|教えて|どなたか
QuestionWords == { <<"u3067", "u3059", "u304B", "?">>, <<"?">>, <<"u3069", "u3046">>, <<"u60C5", "u5831", "u6C42", "u3080">>, <<"u6559", "u3048", "u3066">>, <<"u3069", "u306A", "u305F", "u304B">> }

\* (?:いない|居ない|ゼロ|無い|なし)(?:です|でした)(?:か|ね|よ)
negative_report(t) ==
    \E i \in 1..Len(t) :
       \E a \in { <<"u3044", "u306A", "u3044">>, <<"u5C45", "u306A", "u3044">>, <<"u30BC", "u30ED">>, <<"u7121", "u3044">>, <<"u306A", "u3057">> } :
          \E b \in { <<"u3067", "u3059">>, <<"u3067", "u3057", "u305F">> } :
             \E c \in { <<"u304B">>, <<"u306D">>, <<"u3088">> } :
                HasAt(t, i, a \o b \o c)

\* app4.py: the seven pattern groups joined into one alternation, in order
app4_unrelated_patterns ==
    << <<"u5929", "u6C17">>, <<"u6CE2">>, <<"u6FC1", "u308A">>, <<"u98A8">>, <<"u96E8">>, <<"u96EA">>, <<"u6C17", "u6E29">>,          \* 天気|波|濁り|風|雨|雪|気温
       <<"u8CEA", "u554F">>, <<"u4F55", "u51E6">>, <<"u3069", "u3053">>, <<"u3069", "u3046">>, <<"u3067", "u3057", "u3087", "u3046", "u304B", "?">>,           \* 質問|何処|どこ|どう|でしょうか\?
       <<"u60C5", "u5831">>, <<"u6C42", "u3080">>, <<"u6559", "u3048", "u3066">>, <<"u8AB0", "u304B">>,                        \* 情報|求む|教えて|誰か
       <<"u79FB", "u52D5">>, <<"u5411", "u304B", "u3046">>, <<"u51FA", "u767A">>, <<"u4E88", "u5B9A">>, <<"u660E", "u65E5">>,                \* 移動|向かう|出発|予定|明日
       <<"u30C8", "u30A4", "u30EC">>, <<"u99D0", "u8ECA", "u5834">>, <<"u6DF7", "u96D1">>, <<"u6DF7", "u307F", "u5177", "u5408">>,                  \* トイレ|駐車場|混雑|混み具合
       <<"u6CCA", "u307E", "u308B">>, <<"u30DB", "u30C6", "u30EB">>, <<"u5BBF", "u6CCA">>,                              \* 泊まる|ホテル|宿泊
       <<"u3069", "u3046", "u3082">>, <<"u3042", "u308A", "u304C", "u3068", "u3046">>, <<"u611F", "u8B1D">> >>                        \* どうも|ありがとう|感謝

\* the number of non-overlapping matches finditer yields from position pos on
RECURSIVE count_matches(_, _, _)
count_matches(t, pos, alts) ==
    IF pos > Len(t) THEN 0
    ELSE LET e == AltEnd(t, pos, alts)
         IN  IF e > 0 THEN 1 + count_matches(t, e, alts)
             ELSE count_matches(t, pos + 1, alts)

MinLength == 15

\* a variant in which a question is unrelated even when it holds a report
app4_detect_unrelated_every_question(t) ==
    IF Len(t) < MinLength /\ ~ContainsAny(t, SquidWords) THEN TRUE
    ELSE IF ContainsAny(t, QuestionWords) THEN TRUE
    ELSE LET unrelated_count == count_matches(t, 1, app4_unrelated_patterns)
         IN  unrelated_count >= 2 /\ ~ContainsAny(t, CatchWords)

app4_detect_unrelated(t) ==
    IF Len(t) < MinLength /\ ~ContainsAny(t, SquidWords) THEN TRUE
    ELSE IF ContainsAny(t, QuestionWords) /\ ~negative_report(t) THEN TRUE
    ELSE LET unrelated_count == count_matches(t, 1, app4_unrelated_patterns)
         IN  unrelated_count >= 2 /\ ~ContainsAny(t, CatchWords)

\* app5.py: four pattern groups, each counted once when it matches anywhere
app5_unrelated_patterns ==
    << { <<"u5929", "u6C17">>, <<"u6CE2">>, <<"u6FC1", "u308A">>, <<"u98A8">>, <<"u96E8">>, <<"u96EA">>, <<"u6C17", "u6E29">> },        \* 天気|波|濁り|風|雨|雪|気温
       { <<"u79FB", "u52D5">>, <<"u5411", "u304B", "u3046">>, <<"u51FA", "u767A">>, <<"u4E88", "u5B9A">>, <<"u660E", "u65E5">> },              \* 移動|向かう|出発|予定|明日
       { <<"u30C8", "u30A4", "u30EC">>, <<"u99D0", "u8ECA", "u5834">>, <<"u6DF7", "u96D1">>, <<"u6DF7", "u307F", "u5177", "u5408">> },                \* トイレ|駐車場|混雑|混み具合
       { <<"u6CCA", "u307E", "u308B">>, <<"u30DB", "u30C6", "u30EB">>, <<"u5BBF", "u6CCA">> } >>                          \* 泊まる|ホテル|宿泊

app5_detect_unrelated(t) ==
    IF Len(t) < MinLength /\ ~ContainsAny(t, SquidWords) THEN TRUE
    ELSE IF ContainsAny(t, QuestionWords) /\ ~negative_report(t) THEN TRUE
    ELSE LET unrelated_count ==
                 Cardinality({ g \in 1..4 : ContainsAny(t, app5_unrelated_patterns[g]) })
         IN  unrelated_count >= 2 /\ ~ContainsAny(t, CatchWords)

(***************************************************************************)
(* The quantity-to-label tables.                                           *)
(***************************************************************************)
\* a variant of app4_number_label that does not single out the quantity 0
app4_number_label_no_zero(max_num) ==
    IF max_num <= 10 THEN SUKUNAI
    ELSE IF max_num <= 30 THEN FUTSUU
    ELSE IF max_num <= 70 THEN OOI
    ELSE HIJOUNI_OOI

\* app4.py improved_simple_classify, lines 207-217
app4_number_label(max_num) ==
    IF max_num = 0 THEN NASHI
    ELSE IF max_num <= 10 THEN SUKUNAI
    ELSE IF max_num <= 30 THEN FUTSUU
    ELSE IF max_num <= 70 THEN OOI
    ELSE HIJOUNI_OOI

\* app5.py post_process_classification, lines 359-374
app5_post_number_label(max_num) ==
    IF max_num = 0 THEN NASHI
    ELSE IF max_num <= 10 THEN SUKUNAI
    ELSE IF max_num <= 30 THEN FUTSUU
    ELSE IF max_num <= 70 THEN OOI
    ELSE HIJOUNI_OOI

\* a variant of app2_count_label with the boundaries one too low
app2_count_label_strict(count) ==
    IF count = 0 THEN NASHI
    ELSE IF count < 10 THEN SUKUNAI
    ELSE IF count < 30 THEN FUTSUU
    ELSE IF count < 70 THEN OOI
    ELSE HIJOUNI_OOI

\* app2.py classify_comment, lines 130-145
app2_count_label(count) ==
    IF count = 0 THEN NASHI
    ELSE IF count <= 10 THEN SUKUNAI
    ELSE IF count <= 30 THEN FUTSUU
    ELSE IF count <= 70 THEN OOI
    ELSE HIJOUNI_OOI

(***************************************************************************)
(* improved_simple_classify, app4.py (priority mode).  The reason string   *)
(* of the returned pair is only logged and is left out.                    *)
(***************************************************************************)
\* a variant that tests negation before the extracted numbers
app4_improved_simple_classify_negation_first(raw) ==
    LET text    == normalize_text(raw)
        numbers == app4_extract_numbers(text)
    IN  IF app4_detect_unrelated(text) THEN FUMEI
        ELSE IF detect_negation(text) THEN NASHI
        ELSE IF numbers # None THEN app4_number_label(max(numbers))
        ELSE IF detect_very_large_amount(text) THEN HIJOUNI_OOI
        ELSE IF detect_large_amount(text) THEN OOI
        ELSE IF app4_detect_normal_amount(text) THEN FUTSUU
        ELSE IF app4_detect_small_amount(text) THEN SUKUNAI
        ELSE FUMEI

\* a variant that tests the intensity detectors before negation
app4_improved_simple_classify_intensity_first(raw) ==
    LET text    == normalize_text(raw)
        numbers == app4_extract_numbers(text)
    IN  IF app4_detect_unrelated(text) THEN FUMEI
        ELSE IF numbers # None THEN app4_number_label(max(numbers))
        ELSE IF detect_very_large_amount(text) THEN HIJOUNI_OOI
        ELSE IF detect_large_amount(text) THEN OOI
        ELSE IF app4_detect_normal_amount(text) THEN FUTSUU
        ELSE IF app4_detect_small_amount(text) THEN SUKUNAI
        ELSE IF detect_negation(text) THEN NASHI
        ELSE FUMEI

\* a variant that classifies by the last number found instead of the largest
app4_improved_simple_classify_latest_number(raw) ==
    LET text    == normalize_text(raw)
        numbers == app4_extract_numbers(text)
    IN  IF app4_detect_unrelated(text) THEN FUMEI
        ELSE IF numbers # None THEN app4_number_label(numbers[Len(numbers)])
        ELSE IF detect_negation(text) THEN NASHI
        ELSE IF detect_very_large_amount(text) THEN HIJOUNI_OOI
        ELSE IF detect_large_amount(text) THEN OOI
        ELSE IF app4_detect_normal_amount(text) THEN FUTSUU
        ELSE IF app4_detect_small_amount(text) THEN SUKUNAI
        ELSE FUMEI

app4_improved_simple_classify(raw) ==
    LET text    == normalize_text(raw)
        numbers == app4_extract_numbers(text)
    IN  IF app4_detect_unrelated(text) THEN FUMEI
        ELSE IF numbers # None THEN app4_number_label(max(numbers))
        ELSE IF detect_negation(text) THEN NASHI
        ELSE IF detect_very_large_amount(text) THEN HIJOUNI_OOI
        ELSE IF detect_large_amount(text) THEN OOI
        ELSE IF app4_detect_normal_amount(text) THEN FUTSUU
        ELSE IF app4_detect_small_amount(text) THEN SUKUNAI
        ELSE FUMEI

(***************************************************************************)
(* score_comment and improved_simple_classify, app5.py (accumulation mode).*)
(***************************************************************************)
\* a variant of number_score that takes the quantity 0 for a small quantity
number_score_zero_as_few(numbers) ==
    IF numbers = None THEN 0
    ELSE IF max(numbers) >= 71 THEN 3
    ELSE IF max(numbers) >= 31 THEN 2
    ELSE IF max(numbers) >= 11 THEN 1
    ELSE -1

\* the points score_comment adds for the extracted numbers (if numbers: ...)
number_score(numbers) ==
    IF numbers = None THEN 0
    ELSE IF max(numbers) >= 71 THEN 3
    ELSE IF max(numbers) >= 31 THEN 2
    ELSE IF max(numbers) >= 11 THEN 1
    ELSE IF max(numbers) > 0 THEN -1
    ELSE -3

score_comment(text) ==
      (IF detect_very_large_amount(text) THEN 3 ELSE 0)
    + (IF detect_large_amount(text) THEN 2 ELSE 0)
    + (IF app5_detect_normal_amount(text) THEN 1 ELSE 0)
    - (IF app5_detect_small_amount(text) THEN 1 ELSE 0)
    - (IF detect_negation(text) THEN 3 ELSE 0)
    + number_score(app5_extract_numbers(text))

\* a variant of score_label whose few band reaches up to the score 0
score_label_few_up_to_zero(score) ==
    IF score <= -2 THEN NASHI
    ELSE IF score <= 0 THEN SUKUNAI
    ELSE IF score = 1 THEN FUTSUU
    ELSE IF score = 2 THEN OOI
    ELSE HIJOUNI_OOI

\* the label improved_simple_classify gives a score
score_label(score) ==
    IF score <= -2 THEN NASHI
    ELSE IF score = -1 THEN SUKUNAI
    ELSE IF score = 0 \/ score = 1 THEN FUTSUU
    ELSE IF score = 2 THEN OOI
    ELSE HIJOUNI_OOI

app5_improved_simple_classify(raw) ==
    LET text == normalize_text(raw)
    IN  IF app5_detect_unrelated(text) THEN FUMEI
        ELSE score_label(score_comment(text))

(***************************************************************************)
(* extract_count, app2.py.  The result is a record: kind "int" with the    *)
(* count, kind "None", or the kind of the error when the function raises:  *)
(* "AttributeError" (a kanji count written with white space is not in      *)
(* num_map and holds no digit for re.search(r'\d+', ...) to find) or       *)
(* "ValueError" (int() does not convert the digits).                       *)
(***************************************************************************)
CountWords  == << <<"u5339">>, <<"u676F">>, <<"u500B">>, <<"u304F", "u3089", "u3044">>, <<"u524D", "u5F8C">>, <<"u307B", "u3069">> >>          \* 匹|杯|個|くらい|前後|ほど
SmallKanji  == << "u4E00", "u4E8C", "u4E09", "u56DB", "u4E94", "u516D", "u4E03", "u516B", "u4E5D" >>   \* 一 .. 九

\* (\d+)\s*(?:匹|杯|個|くらい|前後|ほど)|(?:一|...|九)\s*(?:匹|杯) tried at position i:
\* 0 when it does not match, else the position after the match
number_match_end(t, i) ==
    LET e1 == NumberThenAlt(t, i, CountWords)
    IN  IF e1 > 0 THEN e1
        ELSE IF i <= Len(t) /\ (\E k \in 1..9 : t[i] = SmallKanji[k])
             THEN AltEnd(t, SpacesEnd(t, i + 1), << <<"u5339">>, <<"u676F">> >>)
             ELSE 0

\* a variant of extract_count that looks at the number before the zero cue
extract_count_number_first(t) ==
    LET starts == { i \in 1..Len(t) : number_match_end(t, i) > 0 }
    IN  IF starts # {}
        THEN LET i == CHOOSE s \in starts : \A r \in starts : s <= r
             IN  IF IsDigit(t[i])
                 THEN int(SubSeq(t, i, DigitsEnd(t, i) - 1))
                 ELSE [kind |-> "int", val |-> CHOOSE k \in 1..9 : t[i] = SmallKanji[k]]
        ELSE IF ContainsAny(t, { <<"u30BC", "u30ED">>, <<"0", "u5339">>, <<"0", "u676F">> })
        THEN [kind |-> "int", val |-> 0]
        ELSE [kind |-> "None", val |-> 0]

extract_count(t) ==
    LET starts == { i \in 1..Len(t) : number_match_end(t, i) > 0 }
    IN  IF ContainsAny(t, { <<"u30BC", "u30ED">>, <<"0", "u5339">>, <<"0", "u676F">> })                       \* ゼロ|0匹|0杯
        THEN [kind |-> "int", val |-> 0]
        ELSE IF starts # {}
        THEN LET i == CHOOSE s \in starts : \A r \in starts : s <= r
                 count_str == SubSeq(t, i, number_match_end(t, i) - 1)
             IN  IF IsDigit(count_str[1])
                 THEN int(SubSeq(t, i, DigitsEnd(t, i) - 1))
                 ELSE IF Len(count_str) = 2      \* the key is in num_map
                 THEN [kind |-> "int",
                       val |-> CHOOSE k \in 1..9 : count_str[1] = SmallKanji[k]]
                 ELSE [kind |-> "AttributeError", val |-> 0]
        ELSE [kind |-> "None", val |-> 0]

(***************************************************************************)
(* re.search for the patterns of app2.py.  A pattern is the set of its     *)
(* alternatives; an alternative is a sequence of elements: literals, a     *)
(* character class, \s*, .*? .  Only the existence of a match is asked, so *)
(* the positions a match can reach are followed as a set.                  *)
(***************************************************************************)
Alt(ws)   == [k |-> "lit",    v |-> ws]         \* w  or  (?:w1|w2|...)
Class(cs) == [k |-> "class",  v |-> cs]         \* [...]
Spaces    == [k |-> "spaces", v |-> {}]         \* \s*
Gap       == [k |-> "gap",    v |-> {}]         \* .*?   (no newline)

\* alternatives that are plain literals
Lits(ws) == { << Alt({ w }) >> : w \in ws }

\* the positions after element e, matched from a position of P
Step(t, P, e) ==
    CASE e.k = "lit"
           -> UNION { { p + Len(w) : w \in { x \in e.v : HasAt(t, p, x) } } : p \in P }
      [] e.k = "class"
           -> { p + 1 : p \in { q \in P : q <= Len(t) /\ t[q] \in e.v } }
      [] e.k = "spaces"
           -> UNION { { q \in p..(Len(t) + 1) : \A j \in p..(q - 1) : IsSpace(t[j]) } : p \in P }
      [] e.k = "gap"
           -> UNION { { q \in p..(Len(t) + 1) : \A j \in p..(q - 1) : t[j] # "\n" } : p \in P }

RECURSIVE Ends(_, _, _)
Ends(t, P, es) == IF es = << >> \/ P = {} THEN P
                  ELSE Ends(t, Step(t, P, es[1]), Tail(es))

re_search(pattern, t) == \E es \in pattern : Ends(t, 1..(Len(t) + 1), es) # {}

\* str.lower(): the lower case of every character; a capital sigma that ends a
\* word (a cased letter before it, none after it, the characters a final sigma
\* ignores skipped on both sides) gives the final small sigma
lower(t) ==
    LET cased_before(i) ==
            \E j \in 1..(i - 1) : /\ t[j] \in CaseData.cased
                                  /\ \A k \in (j + 1)..(i - 1) : t[k] \in CaseData.ignorable
        cased_after(i) ==
            \E j \in (i + 1)..Len(t) : /\ t[j] \in CaseData.cased
                                       /\ \A k \in (i + 1)..(j - 1) : t[k] \in CaseData.ignorable
        low(i) == IF t[i] = "u03A3" /\ cased_before(i) /\ ~cased_after(i) THEN << "u03C2" >>
                  ELSE IF t[i] \in CaseData.upper THEN CaseData.lower[t[i]]
                  ELSE << t[i] >>
        lowered[i \in 0..Len(t)] == IF i = 0 THEN << >> ELSE lowered[i - 1] \o low(i)
    IN  lowered[Len(t)]

Digits09 == { "0", "1", "2", "3", "4", "5", "6", "7", "8", "9" }     \* [0-9]
Counter  == Alt({ <<"u5339">>, <<"u676F">> })                                      \* (?:匹|杯)

(***************************************************************************)
(* keyword_patterns, app2.py: two patterns and a score for each category.  *)
(***************************************************************************)
Categories == << NASHI, SUKUNAI, FUTSUU, OOI, HIJOUNI_OOI, FUMEI >>

keyword_patterns ==
    << \* なし
       [patterns |-> <<
           Lits({ <<"u306A", "u3057">>, <<"u7121", "u3057">>, <<"u3044", "u306A", "u3044">>, <<"0", "u5339">>, <<"u30BC", "u30ED">>, <<"u3044", "u306A", "u304B", "u3063", "u305F">>, <<"u898B", "u5F53", "u305F", "u3089", "u305A">>, <<"u7686", "u7121">>,
                  <<"u5168", "u6EC5">>, <<"u304A", "u3089", "u306C">>, <<"u5F71", "u3082", "u898B", "u3048", "u305A">>, <<"u30BC", "u30ED", "u3060", "u3063", "u305F">> })
             \cup { << Alt({ <<"u898B">> }), Gap, Alt({ <<"u306A", "u3044">> }) >>,
                    << Alt({ <<"u59FF">> }), Gap, Alt({ <<"u306A", "u3044">> }) >>,
                    << Alt({ <<"u6C17", "u914D">> }), Gap, Alt({ <<"u7121">> }) >>,
                    << Alt({ <<"u5168", "u304F">> }), Gap, Alt({ <<"u3044", "u306A", "u3044">> }) >> },
           Lits({ <<"u30A4", "u30AB", "u306A", "u3057">>, <<"u5168", "u304F", "u3044", "u306A", "u3044">>, <<"u5168", "u304F", "u63A1", "u308C", "u306A", "u3044">>, <<"u30A4", "u30AB", "u3068", "u306F", "u4F1A", "u3048", "u305A">>, <<"u6253", "u3061", "u4E0A", "u3052", "u3082", "u7121", "u3057">>,
                  <<"u30A4", "u30AB", "u306E", "u6C17", "u914D", "u306A", "u3057">>, <<"u5168", "u304F", "u59FF", "u898B", "u3048", "u305A">> })
             \cup { << Alt({ <<"u30DB", "u30BF", "u30EB", "u30A4", "u30AB">> }), Gap, Alt({ <<"u7121">> }) >> } >>,
        score |-> 6],
       \* 少ない
       [patterns |-> <<
           Lits({ <<"u5C11", "u306A">>, <<"u308F", "u305A", "u304B">>, <<"u6570", "u5339">>, <<"u3061", "u3089", "u307B", "u3089">>, <<"u307D", "u3064", "u307D", "u3064">>, <<"u307B", "u3068", "u3093", "u3069", "u3044", "u306A", "u3044">>, <<"u5C11", "u3005">>,
                  <<"u3061", "u3087", "u3063", "u3068", "u3060", "u3051">>, <<"u4E00", "u5339">>, <<"u4E8C", "u5339">>, <<"u4E09", "u5339">>, <<"u5C11", "u3057", "u3065", "u3064">> })
             \cup { << Class(Digits09 \ { "0" }), Spaces, Counter >> },
           Lits({ <<"5", "u5339", "u307B", "u3069">>, <<"1", "0", "u5339", "u672A", "u6E80">>, <<"u6570", "u3048", "u308B", "u7A0B", "u5EA6">>, <<"u3042", "u307E", "u308A", "u3044", "u306A", "u304B", "u3063", "u305F">>, <<"u671F", "u5F85", "u3088", "u308A", "u5C11", "u306A">> })
             \cup { << Alt({ <<"1", "u6642", "u9593", "u3067">> }), Class(Digits09 \ { "0" }), Spaces, Counter >> } >>,
        score |-> 4],
       \* 普通
       [patterns |-> <<
           Lits({ <<"u666E", "u901A">>, <<"u307E", "u3042", "u307E", "u3042">>, <<"u305D", "u3053", "u305D", "u3053">>, <<"u4F8B", "u5E74", "u4E26">>, <<"u6A19", "u6E96", "u7684">>, <<"u60AA", "u304F", "u306A", "u3044">>, <<"u305D", "u308C", "u306A", "u308A">>,
                  <<"u307E", "u305A", "u307E", "u305A">> })
             \cup { << Class({ "1", "2" }), Class(Digits09), Spaces, Counter >> },
           Lits({ <<"2", "0", "u6570", "u5339">>, <<"u305D", "u3053", "u305D", "u3053", "u63AC", "u3048", "u305F">>, <<"u307E", "u3042", "u307E", "u3042", "u697D", "u3057", "u3081", "u305F">> })
             \cup { << Alt({ <<"1", "u6642", "u9593", "u3067", "2">> }), Class(Digits09), Spaces, Counter >> } >>,
        score |-> 4],
       \* 多い
       [patterns |-> <<
           Lits({ <<"u591A", "u3044">>, <<"u305F", "u304F", "u3055", "u3093">>, <<"u3044", "u3063", "u3071", "u3044">>, <<"u582A", "u80FD">>, <<"u305F", "u3063", "u3077", "u308A">>, <<"u5145", "u5B9F">>, <<"u5927", "u6F01">> })
             \cup { << Class({ "4", "5", "6" }), Class(Digits09), Spaces, Counter >>,
                    << Alt({ <<"u63AC", "u3046", "u306E", "u306B">> }), Gap, Alt({ <<"u697D", "u3057", "u3044">> }) >> },
           Lits({ <<"u304B", "u306A", "u308A", "u53D6", "u308C", "u305F">>, <<"u591A", "u304B", "u3063", "u305F">>, <<"5", "0", "u4EE5", "u4E0A">>, <<"u826F", "u3044", "u611F", "u3058", "u306B", "u7372", "u308C", "u305F">> })
             \cup { << Alt({ <<"1", "u6642", "u9593", "u3067">> }), Class({ "3", "4", "5" }), Class(Digits09), Spaces,
                       Counter >> } >>,
        score |-> 4],
       \* 非常に多い
       [patterns |-> <<
           Lits({ <<"u975E", "u5E38", "u306B">>, <<"u3081", "u3063", "u3061", "u3083">>, <<"u3059", "u3054", "u3044">>, <<"u7206">>, <<"u5927", "u91CF">>, <<"u30A4", "u30AB", "u3060", "u3089", "u3051">>, <<"u6570", "u3048", "u304D", "u308C", "u306A", "u3044">>,
                  <<"u5727", "u5012", "u7684">> })
             \cup { << Class({ "7", "8", "9" }), Class(Digits09), Spaces, Counter >>,
                    << Alt({ <<"1">> }), Class(Digits09), Class(Digits09), Spaces, Counter >> },
           Lits({ <<"u7206", "u5BC4", "u308A">>, <<"u5927", "u91CF", "u767A", "u751F">>, <<"u63AC", "u3044", "u653E", "u984C">>, <<"u904E", "u53BB", "u4E00", "u306E", "u91CF">>, <<"u7DB2", "u304C", "u91CD", "u304F", "u306A", "u308B">> })
             \cup { << Alt({ <<"1", "0", "u5206", "u3067">> }), Class({ "4", "5", "6", "7", "8", "9" }), Class(Digits09),
                       Spaces, Counter >> } >>,
        score |-> 4],
       \* 不明
       [patterns |-> <<
           Lits({ <<"u5909", "u308F", "u308A", "u7121", "u3057">>, <<"u5909", "u5316", "u7121", "u3057">>, <<"u69D8", "u5B50", "u898B">>, <<"u5F85", "u6A5F">>, <<"u6C17", "u914D", "u306A", "u3055", "u305D", "u3046">>, <<"u3069", "u3093", "u306A", "u611F", "u3058">>,
                  <<"u5C11", "u3057", "u52D5", "u304D">>, <<"u96F0", "u56F2", "u6C17">>, <<"u5E30", "u308B">>, <<"u7C98", "u308B">>, <<"u64A4", "u53CE">>, <<"u30D1", "u30C8", "u30AB", "u30FC">>, <<"u30B9", "u30EB", "u30E1">>, <<"u9375", "u3092", "u304B", "u3051", "u3066">>,
                  <<"u6708", "u9F62">>, <<"u30B4", "u30FC", "u30EB", "u30C7", "u30F3", "u30A6", "u30A3", "u30FC", "u30AF">>, <<"u60C5", "u5831", "u306B", "u611F", "u8B1D">> }),
           Lits({ <<"u6FC1", "u308A">>, <<"u99D0", "u8ECA", "u5834">>, <<"u30DE", "u30CA", "u30FC">>, <<"u711A", "u304D", "u706B">>, <<"u5DE1", "u56DE">>, <<"u7981", "u6B62">>, <<"u6E96", "u5099">>, <<"u5929", "u6C17">>, <<"u3069", "u3046">>,
                  <<"u3069", "u3093", "u306A">>, <<"u3067", "u3057", "u3087", "u3046">>, <<"?">>, <<"uFF1F">> })
             \cup { << Alt({ <<"u6CE2">> }), Gap, Alt({ <<"u9AD8", "u3044">>, <<"u3042", "u308A">> }) >> } >>,
        score |-> 1] >>

\* youtube|youtu\.be|https?:|放送|...|波.*?(高い|あり)|...|禁止 , re.IGNORECASE: a letter of
\* the pattern matches every character of its case class, any other character itself
is_irrelevant(text) ==
    LET letter(c) == Class(IF c \in DOMAIN CaseData.ignorecase
                           THEN CaseData.ignorecase[c] ELSE { c })
        word(w) == [i \in DOMAIN w |-> letter(w[i])]
    IN  re_search({ word(<<"y", "o", "u", "t", "u", "b", "e">>), word(<<"y", "o", "u", "t", "u", ".", "b", "e">>), word(<<"h", "t", "t", "p", ":">>), word(<<"h", "t", "t", "p", "s", ":">>) }
                    \cup Lits({ <<"u653E", "u9001">>, <<"u30C6", "u30EC", "u30D3">>, <<"u30C1", "u30E3", "u30F3", "u30CD", "u30EB">>, <<"u96F7">>, <<"u6CE8", "u610F">>, <<"u8B66", "u5831">>, <<"u30A2", "u30C9", "u30D0", "u30A4", "u30B9">>,
                                <<"u3054", "u6CE8", "u610F">>, <<"u611F", "u8B1D">>, <<"u9811", "u5F35">>, <<"u3069", "u3046">>, <<"u3069", "u3093", "u306A">>, <<"u3067", "u3057", "u3087", "u3046">>, <<"?">>, <<"uFF1F">>,
                                <<"u30B9", "u30EB", "u30E1">>, <<"u30D1", "u30C8", "u30AB", "u30FC">>, <<"u9375", "u3092", "u304B", "u3051", "u3066">>, <<"u6708", "u9F62">>, <<"u30B4", "u30FC", "u30EB", "u30C7", "u30F3", "u30A6", "u30A3", "u30FC", "u30AF">>,
                                <<"u60C5", "u5831", "u306B", "u611F", "u8B1D">>, <<"u5F85", "u6A5F">>, <<"u69D8", "u5B50", "u898B">>, <<"u5E30", "u308B">>, <<"u64A4", "u53CE">>, <<"u6E96", "u5099">>, <<"u5929", "u6C17">>,
                                <<"u6FC1", "u308A">>, <<"u99D0", "u8ECA", "u5834">>, <<"u30DE", "u30CA", "u30FC">>, <<"u711A", "u304D", "u706B">>, <<"u5DE1", "u56DE">>, <<"u7981", "u6B62">> })
                    \cup { << Alt({ <<"u6CE2">> }), Gap, Alt({ <<"u9AD8", "u3044">>, <<"u3042", "u308A">> }) >> },
                  text)

\* re.split(r'[。！？\n]', text)
RECURSIVE re_split(_)
re_split(t) ==
    LET ends == { "u3002", "uFF01", "uFF1F", "\n" }
    IN  IF \A i \in 1..Len(t) : t[i] \notin ends THEN << t >>
        ELSE LET i == CHOOSE j \in 1..Len(t) :
                         /\ t[j] \in ends
                         /\ \A k \in 1..(j - 1) : t[k] \notin ends
             IN  << SubSeq(t, 1, i - 1) >> \o re_split(SubSeq(t, i + 1, Len(t)))

\* [s.strip() for s in re.split(...) if s.strip()]
RECURSIVE stripped(_)
stripped(pieces) ==
    IF pieces = << >> THEN << >>
    ELSE IF strip(pieces[1]) = << >> THEN stripped(Tail(pieces))
    ELSE << strip(pieces[1]) >> \o stripped(Tail(pieces))

split_sentences(text) == stripped(re_split(text))

\* scores[category] += config["score"] for each of the two patterns that matches
keyword_score(text) ==
    [c \in 1..6 |->
        keyword_patterns[c].score
          * Cardinality({ p \in 1..2 : re_search(keyword_patterns[c].patterns[p], text) })]

\* the category the scores select, None when they select none
keyword_label(scores) ==
    LET max_score == max(scores)
        first == CHOOSE c \in 1..6 :
                    /\ scores[c] = max_score
                    /\ \A e \in 1..(c - 1) : scores[e] # max_score
    IN  IF max_score >= 4 /\ Cardinality({ c \in 1..6 : scores[c] = max_score }) = 1
        THEN Categories[first]
        ELSE IF max_score >= 4 /\ scores[6] # max_score
        THEN Categories[first]
        ELSE None

\* what a call raises instead of returning
AttributeError == << "AttributeError" >>
ValueError     == << "ValueError" >>

\* for sentence in reversed(sentences): count = extract_count(sentence) ...
RECURSIVE reversed_count(_)
count_or_earlier(count, earlier) ==
    IF count.kind # "None" THEN count ELSE reversed_count(earlier)
reversed_count(sentences) ==
    IF sentences = << >> THEN [kind |-> "None", val |-> 0]
    ELSE count_or_earlier(extract_count(sentences[Len(sentences)]),
                          SubSeq(sentences, 1, Len(sentences) - 1))

\* for sentence in reversed(sentences): the first sentence whose scores select a category
RECURSIVE reversed_keyword_label(_)
label_or_earlier(label, earlier) ==
    IF label # None THEN label ELSE reversed_keyword_label(earlier)
reversed_keyword_label(sentences) ==
    IF sentences = << >> THEN FUMEI
    ELSE label_or_earlier(keyword_label(keyword_score(sentences[Len(sentences)])),
                          SubSeq(sentences, 1, Len(sentences) - 1))

\* classify_comment from the explicit expressions on:
\* ゼロ|なし|無し|全くいない|皆無|いなかった|見つからない|見当たらない|気配.*?なし|全く.*?見.*?ない|おらぬ
classify_by_words(text, sentences) ==
    IF re_search(Lits({ <<"u30BC", "u30ED">>, <<"u306A", "u3057">>, <<"u7121", "u3057">>, <<"u5168", "u304F", "u3044", "u306A", "u3044">>, <<"u7686", "u7121">>, <<"u3044", "u306A", "u304B", "u3063", "u305F">>, <<"u898B", "u3064", "u304B", "u3089", "u306A", "u3044">>,
                        <<"u898B", "u5F53", "u305F", "u3089", "u306A", "u3044">>, <<"u304A", "u3089", "u306C">> })
                   \cup { << Alt({ <<"u6C17", "u914D">> }), Gap, Alt({ <<"u306A", "u3057">> }) >>,
                          << Alt({ <<"u5168", "u304F">> }), Gap, Alt({ <<"u898B">> }), Gap, Alt({ <<"u306A", "u3044">> }) >> },
                 text)
    THEN NASHI
    ELSE label_or_earlier(keyword_label(keyword_score(text)), sentences)

\* a variant of classify_by_count that uses the count of the whole comment
classify_by_count_of_comment(text, sentences, count) ==
    CASE extract_count(text).kind = "AttributeError" -> AttributeError
      [] extract_count(text).kind = "ValueError" -> ValueError
      [] extract_count(text).kind = "int" -> app2_count_label(extract_count(text).val)
      [] OTHER -> classify_by_words(text, sentences)

\* classify_comment from the count on: the threshold label of the count
classify_by_count(text, sentences, count) ==
    CASE count.kind = "AttributeError" -> AttributeError
      [] count.kind = "ValueError"     -> ValueError
      [] count.kind = "int"            -> app2_count_label(count.val)
      [] OTHER                         -> classify_by_words(text, sentences)

classify_comment(text) ==
    IF is_irrelevant(text) \/ Len(text) < 5 THEN FUMEI
    ELSE classify_by_count(text, split_sentences(text),
                           reversed_count(split_sentences(text)))

(***************************************************************************)
(* simple_classify_comment, app3.py: the classifier used without the       *)
(* remote model.                                                           *)
(***************************************************************************)
\* re.findall(r'(\d+)(?:匹|杯)', text)[0]: the digits of the first run of
\* digits that 匹 or 杯 follows at once; None when there is no such run
first_number(t) ==
    LET starts == { i \in 1..Len(t) :
                       /\ IsDigit(t[i])
                       /\ AltEnd(t, DigitsEnd(t, i), << <<"u5339">>, <<"u676F">> >>) > 0 }
    IN  IF starts = {} THEN None
        ELSE LET i == CHOOSE s \in starts : \A r \in starts : s <= r
             IN  SubSeq(t, i, DigitsEnd(t, i) - 1)

simple_classify_comment(raw) ==
    IF ContainsAny(lower(raw), { <<"u30BC", "u30ED">>, <<"0", "u5339">>, <<"0", "u676F">>, <<"u306A", "u3057">>, <<"u3044", "u306A", "u3044">>, <<"u898B", "u3048", "u306A", "u3044">> }) THEN NASHI
    ELSE IF first_number(lower(raw)) # None
         THEN IF int(first_number(lower(raw))).kind = "int"
              THEN app2_count_label(int(first_number(lower(raw))).val)
              ELSE ValueError
    ELSE IF ContainsAny(lower(raw), { <<"u305F", "u304F", "u3055", "u3093">>, <<"u3044", "u3063", "u3071", "u3044">>, <<"u591A", "u3044">> }) THEN OOI
    ELSE IF ContainsAny(lower(raw), { <<"u3061", "u3089", "u307B", "u3089">>, <<"u5C11", "u3057">>, <<"u5C11", "u306A", "u3044">> }) THEN SUKUNAI
    ELSE IF ContainsAny(lower(raw), { <<"u305D", "u3053", "u305D", "u3053">>, <<"u307E", "u3042", "u307E", "u3042">> }) THEN FUTSUU
    ELSE IF ContainsAny(lower(raw), { <<"u5927", "u91CF">>, <<"u7206">>, <<"u3059", "u3054", "u3044">> }) THEN HIJOUNI_OOI
    ELSE FUMEI

(***************************************************************************)
(* classify_with_gemini, app6.py.  The remote model answers with a text or *)
(* the call raises; the function returns the first category, in the order  *)
(* of its list (the order of Categories), that occurs in the stripped text. *)
(***************************************************************************)
RECURSIVE first_category_in(_, _)
first_category_in(result, cats) ==
    IF cats = << >> THEN None
    ELSE IF Contains(result, cats[1]) THEN cats[1]
    ELSE first_category_in(result, Tail(cats))

classify_with_gemini(answer) ==
    IF answer.kind = "raise" THEN FUMEI
    ELSE IF first_category_in(strip(answer.text), Categories) # None
    THEN first_category_in(strip(answer.text), Categories)
    ELSE IF \E k \in 1..6 : strip(answer.text) = Categories[k] THEN strip(answer.text)
    ELSE FUMEI

(***************************************************************************)
(* The run: main() scrapes the posts of a page one at a time and hands     *)
(* each valid one to classify_comment_with_grok (app4.py or app5.py).      *)
(***************************************************************************)
VARIABLES
    script,            \* which script runs: "app4" or "app5"
    startup,           \* how the start-up of the module went
    OPENAI_AVAILABLE,  \* the availability flag, decided at start-up
    pc,                \* where the run stands
    scraped,           \* number of posts taken from the page so far
    post,              \* the post at hand: [date, text]
    simple_result,     \* classify_comment_with_grok: the local label
    local_calls,       \* calls of improved_simple_classify made for this comment
    attempt,           \* classify_comment_with_grok: the loop variable
    response,          \* classify_comment_with_grok: "unset", "readable" or "unreadable"
    tries,             \* what the remote model did on each attempt for this comment
    calls,             \* remote calls issued for this comment
    sleeps,            \* time.sleep(1) calls made for this comment
    ret,               \* the value classify_comment_with_grok returned
    all_data,          \* main: the records of the batch
    input,             \* function-level runs: the input drawn
    stage,             \* function-level runs: the functions applied so far
    out                \* function-level runs: the results

vars == << script, startup, OPENAI_AVAILABLE, pc, scraped, post, simple_result,
           local_calls, attempt, response, tries, calls, sleeps, ret, all_data,
           input, stage, out >>

run_vars  == << script, startup, OPENAI_AVAILABLE, pc, scraped, post, simple_result,
                local_calls, attempt, response, tries, calls, sleeps, ret, all_data >>
func_vars == << input, stage, out >>

\* a resolved date (投稿日: 2025年04月01日 02:00) and the sentinel
ResolvedDate == <<"2", "0", "2", "5", "u5E74", "0", "4", "u6708", "0", "1", "u65E5", " ", "0", "2", ":", "0", "0">>                   \* 2025年04月01日 02:00
Dates == { ResolvedDate, FUMEI }

\* the page main scrapes (the model has one page, page_number 1)
base_url == <<"h", "t", "t", "p", "s", ":", "/", "/", "r", "a", "r", "a", ".", "j", "p", "/", "h", "o", "t", "a", "r", "u", "i", "k", "a", "-", "t", "o", "y", "a", "m", "a", "/">>

Filler == <<"u30FC", "u30FC", "u30FC", "u30FC", "u30FC", "u30FC", "u30FC", "u30FC", "u30FC", "u30FC", "u30FC", "u30FC", "u30FC", "u30FC", "u30FC">>                 \* fifteen ー: text that no pattern matches

\* the comment texts of the page, already stripped by main; the empty text
\* stands for a post without a comment cell, the last text is a question
\* that states a quantity
PostTexts == { << >>,
               <<"5", "0", "u5339", "u3067", "u3057", "u305F">>,                              \* 50匹でした
               <<"u5927", "u91CF">> \o Filler,                          \* 大量ーーーーーーーーーーーーーーー
               <<"5", "0", "u5339", "u3067", "u3059", "u304B", "?">> }                            \* 50匹ですか?

\* a string the remote model may answer that is none of the six labels
OtherString == <<"u5927", "u91CF">>                                     \* 大量

\* What the remote model does on one attempt.
Failures == { "raise",           \* client.chat.completions.create raises
              "no_choices",      \* a response whose choices[0].message.content cannot be read
              "not_json",        \* the content is not JSON
              "not_object",      \* the content is JSON, but no object
              "no_surge_level",  \* an object without the key surge_level
              "no_reason" }      \* an object with surge_level, without the key reason
Answers  == Labels \cup { OtherString, None }     \* None: "surge_level": null
Outcomes == [kind : Failures \ { "no_reason" }, surge_level : { None }]
            \cup [kind : { "no_reason", "parsed" }, surge_level : Answers]

RetryLimit == 3

Idle == /\ simple_result = None /\ local_calls = 0 /\ attempt = 0 /\ response = "unset"
        /\ tries = << >> /\ calls = 0 /\ sleeps = 0 /\ ret = None

\* How the start-up goes: the import of the library fails (ImportError), the
\* creation of the client raises, the connection check raises, or all succeed.
Startups == { "ok", "import_error", "client_error", "check_error" }

Init == /\ script \in { "app4", "app5" }
        /\ startup \in Startups
        /\ OPENAI_AVAILABLE = (startup = "ok")
        /\ pc = "main"
        /\ scraped = 0
        /\ post = [date |-> FUMEI, text |-> << >>]
        /\ Idle
        /\ all_data = << >>
        /\ input = << >> /\ stage = "off" /\ out = << >>

\* a variant of Scrape that classifies every post with a text, whatever its date
Scrape_without_date_check ==
    /\ pc = "main"
    /\ scraped < MaxPosts
    /\ \E d \in Dates, t \in PostTexts :
          /\ post' = [date |-> d, text |-> t]
          /\ pc' = IF t # << >> THEN "local" ELSE "main"
    /\ scraped' = scraped + 1
    /\ UNCHANGED << script, startup, OPENAI_AVAILABLE, simple_result, local_calls, attempt, response,
                    tries, calls, sleeps, ret, all_data >>
    /\ UNCHANGED func_vars

\* main: the next post of the page; it is classified only with a resolved
\* date and a non-empty text, and skipped with a warning otherwise
Scrape ==
    /\ pc = "main"
    /\ scraped < MaxPosts
    /\ \E d \in Dates, t \in PostTexts :
          /\ post' = [date |-> d, text |-> t]
          /\ pc' = IF d # FUMEI /\ t # << >> THEN "local" ELSE "main"
    /\ scraped' = scraped + 1
    /\ UNCHANGED << script, startup, OPENAI_AVAILABLE, simple_result, local_calls, attempt, response,
                    tries, calls, sleeps, ret, all_data >>
    /\ UNCHANGED func_vars

improved_simple_classify(t) ==
    IF script = "app4" THEN app4_improved_simple_classify(t)
    ELSE app5_improved_simple_classify(t)

\* a variant of LocalClassify that goes on to the remote request whatever the flag
LocalClassify_ignores_flag ==
    /\ pc = "local"
    /\ simple_result' = improved_simple_classify(post.text)
    /\ local_calls' = local_calls + 1
    /\ ret' = ret /\ pc' = "attempt"
    /\ attempt' = 0
    /\ UNCHANGED << script, startup, OPENAI_AVAILABLE, scraped, post, response, tries,
                    calls, sleeps, all_data >>
    /\ UNCHANGED func_vars

\* a variant of LocalClassify that, with the adapter available, leaves the
\* local label to be computed after the remote request
LocalClassify_remote_first ==
    /\ pc = "local"
    /\ IF ~OPENAI_AVAILABLE
       THEN /\ simple_result' = improved_simple_classify(post.text)
            /\ local_calls' = local_calls + 1
            /\ ret' = simple_result' /\ pc' = "returned"
       ELSE /\ simple_result' = simple_result
            /\ local_calls' = local_calls
            /\ ret' = ret /\ pc' = "attempt"
    /\ attempt' = 0
    /\ UNCHANGED << script, startup, OPENAI_AVAILABLE, scraped, post, response, tries,
                    calls, sleeps, all_data >>
    /\ UNCHANGED func_vars

\* classify_comment_with_grok up to the first remote request: the local
\* label, returned at once when the adapter is unavailable
LocalClassify ==
    /\ pc = "local"
    /\ simple_result' = improved_simple_classify(post.text)
    /\ local_calls' = local_calls + 1
    /\ IF ~OPENAI_AVAILABLE
       THEN ret' = simple_result' /\ pc' = "returned"
       ELSE ret' = ret /\ pc' = "attempt"
    /\ attempt' = 0
    /\ UNCHANGED << script, startup, OPENAI_AVAILABLE, scraped, post, response, tries,
                    calls, sleeps, all_data >>
    /\ UNCHANGED func_vars

\* The response the function holds after the request: create() assigns it
\* unless it raises
held_response(o, resp) ==
    IF o.kind = "raise" THEN resp
    ELSE IF o.kind = "no_choices" THEN "unreadable"
    ELSE "readable"

\* app4.py, the try block: one request; the parsed surge_level is returned,
\* any failure returns the local label
app4_attempt(o, simple) ==
    IF o.kind = "parsed"
    THEN [pc |-> "returned", ret |-> o.surge_level]
    ELSE [pc |-> "returned", ret |-> simple]

\* a variant of app5_attempt that keeps the local label when the remote one is unknown
app5_attempt_prefers_local(o, att, resp, simple) ==
    IF o.kind = "parsed"
    THEN [pc |-> "returned",
          ret |-> IF o.surge_level = FUMEI THEN simple ELSE o.surge_level]
    ELSE IF held_response(o, resp) = "unreadable"
    THEN [pc |-> "raised", ret |-> None]
    ELSE IF att = 2
    THEN [pc |-> "returned", ret |-> simple]
    ELSE [pc |-> "sleep", ret |-> None]

\* app5.py, one iteration of the retry loop: the parsed surge_level is returned;
\* on a failure the except clause logs the content of the response it holds -
\* which raises anew, out of the function, when that response has no
\* choices[0] - and then returns the local label on the third attempt or
\* goes on to sleep
app5_attempt(o, att, resp, simple) ==
    IF o.kind = "parsed"
    THEN [pc |-> "returned", ret |-> o.surge_level]
    ELSE IF held_response(o, resp) = "unreadable"
    THEN [pc |-> "raised", ret |-> None]
    ELSE IF att = 2
    THEN [pc |-> "returned", ret |-> simple]
    ELSE [pc |-> "sleep", ret |-> None]

\* One remote request with the parsing of its answer and, when that fails,
\* the except clause.
RemoteAttempt ==
    /\ pc = "attempt"
    /\ \E o \in Outcomes :
          LET step == IF script = "app4" THEN app4_attempt(o, simple_result)
                      ELSE app5_attempt(o, attempt, response, simple_result)
          IN  /\ tries' = Append(tries, o)
              /\ response' = held_response(o, response)
              /\ pc' = step.pc
              /\ ret' = step.ret
    /\ calls' = calls + 1
    /\ UNCHANGED << script, startup, OPENAI_AVAILABLE, scraped, post, simple_result, local_calls,
                    attempt, sleeps, all_data >>
    /\ UNCHANGED func_vars

\* app5.py: time.sleep(1), then the next iteration of  for attempt in range(3)
Sleep ==
    /\ pc = "sleep"
    /\ sleeps' = sleeps + 1
    /\ attempt' = attempt + 1
    /\ IF attempt + 1 < RetryLimit
       THEN pc' = "attempt"
       ELSE pc' = "returned"       \* the loop runs out: the function returns None
    /\ ret' = None
    /\ UNCHANGED << script, startup, OPENAI_AVAILABLE, scraped, post, simple_result, local_calls,
                    response, tries, calls, all_data >>
    /\ UNCHANGED func_vars

Reset == /\ simple_result' = None /\ local_calls' = 0 /\ attempt' = 0 /\ response' = "unset"
         /\ tries' = << >> /\ calls' = 0 /\ sleeps' = 0 /\ ret' = None

\* main: the record of the comment joins the batch
Store ==
    /\ pc = "returned"
    /\ all_data' = Append(all_data, [date |-> post.date, comment |-> post.text,
                                     surge_level |-> ret, source_url |-> base_url,
                                     page_number |-> 1])
    /\ pc' = "main"
    /\ Reset
    /\ UNCHANGED << script, startup, OPENAI_AVAILABLE, scraped, post >>
    /\ UNCHANGED func_vars

\* main: except Exception around one comment - logged, no record
Catch ==
    /\ pc = "raised"
    /\ pc' = "main"
    /\ Reset
    /\ UNCHANGED << script, startup, OPENAI_AVAILABLE, scraped, post, all_data >>
    /\ UNCHANGED func_vars

(***************************************************************************)
(* post_process_classification, app5.py: the pass over the batch after the *)
(* last page.  current_label is read once per row, before the three rules; *)
(* each rule that applies writes the label, the later over the earlier.    *)
(***************************************************************************)
StrongVeryLarge == { <<"u5927", "u91CF">>, <<"u7206", "u5BC4", "u308A">>, <<"u30A4", "u30AB", "u3060", "u3089", "u3051">> }               \* 大量|爆寄り|イカだらけ
StrongNegation  == { <<"u30BC", "u30ED">>, <<"u3044", "u306A", "u3044">>, <<"u306A", "u3057">>, <<"u5C45", "u306A", "u3044">> }           \* ゼロ|いない|なし|居ない

\* the quantity rule without the test of the label
quantity_override_any_label(label, current_label, numbers) ==
    IF numbers # None
    THEN app5_post_number_label(max(numbers))
    ELSE label

\* if numbers and current_label == "不明": the threshold label of max(numbers)
quantity_override(label, current_label, numbers) ==
    IF numbers # None /\ current_label = FUMEI
    THEN app5_post_number_label(max(numbers))
    ELSE label

\* if re.search(大量|爆寄り|イカだらけ) and current_label not in [多い, 非常に多い]
very_large_override(label, current_label, text) ==
    IF ContainsAny(text, StrongVeryLarge) /\ current_label \notin { OOI, HIJOUNI_OOI }
    THEN HIJOUNI_OOI
    ELSE label

\* if re.search(ゼロ|いない|なし|居ない) and current_label != "なし"
negation_override(label, current_label, text) ==
    IF ContainsAny(text, StrongNegation) /\ current_label # NASHI
    THEN NASHI
    ELSE label

\* one row of the pass: the label the three rules leave in the frame
post_process_label(text, current_label) ==
    negation_override(
        very_large_override(
            quantity_override(current_label, current_label, app5_extract_numbers(text)),
            current_label, text),
        current_label, text)

\* a variant of the pass that tests every row with the label of the first row
post_process_classification_first_label(df) ==
    [idx \in DOMAIN df |->
        [df[idx] EXCEPT !.surge_level = post_process_label(df[idx].comment, df[1].surge_level)]]

post_process_classification(df) ==
    [idx \in DOMAIN df |->
        [df[idx] EXCEPT !.surge_level = post_process_label(df[idx].comment, df[idx].surge_level)]]

\* main: the page is exhausted; app5.py then post-processes the batch
Finish ==
    /\ pc = "main"
    /\ scraped = MaxPosts
    /\ pc' = "done"
    /\ all_data' = IF script = "app5" THEN post_process_classification(all_data)
                   ELSE all_data
    /\ UNCHANGED << script, startup, OPENAI_AVAILABLE, scraped, post, simple_result,
                    local_calls, attempt, response, tries, calls, sleeps, ret >>
    /\ UNCHANGED func_vars

Next == \/ Scrape
        \/ LocalClassify
        \/ RemoteAttempt
        \/ Sleep
        \/ Store
        \/ Catch
        \/ Finish

Spec == Init /\ [][Next]_vars

(***************************************************************************)
(* Function-level runs: an input is drawn and the functions of the local   *)
(* classifiers are applied to it one after the other.                      *)
(***************************************************************************)
RunOff == /\ script = "app5" /\ startup = "import_error" /\ OPENAI_AVAILABLE = FALSE
          /\ pc = "off" /\ scraped = 0
          /\ post = [date |-> FUMEI, text |-> << >>] /\ Idle /\ all_data = << >>

\* The words comments are made of.
ZERO_WORD == <<"u30BC", "u30ED">>            \* ゼロ
REPORT_QUESTION == <<"u3044", "u306A", "u3044", "u3067", "u3059", "u304B", "?">>   \* いないですか?: a report in the form of a question
Vocabulary == << ZERO_WORD,
                 <<"0", "u5339">>,        \* 0匹
                 <<"2", "u5339">>,        \* 2匹
                 <<"2", "8", "u5339">>,       \* 28匹
                 <<"5", "0", "u5339">>,       \* 50匹
                 <<"1", "0", "0", "u676F">>,      \* 100杯
                 <<"u5927", "u91CF">>,       \* 大量      (very large)
                 <<"u305F", "u304F", "u3055", "u3093">>,   \* たくさん  (large)
                 <<"u305D", "u3053", "u305D", "u3053">>,   \* そこそこ  (normal)
                 <<"u5C11", "u3057">>,       \* 少し      (small)
                 <<"u3044", "u306A", "u3044">>,     \* いない    (negation)
                 <<"?">>,          \* ?         (question)
                 <<"u6CE2">>,         \* 波        (weather)
                 REPORT_QUESTION >>

WordLists == UNION { [1..n -> 1..Len(Vocabulary)] : n \in 0..MaxWords }

\* the words written one after the other
RECURSIVE Concat(_)
Concat(ws) == IF ws = << >> THEN << >> ELSE Vocabulary[ws[1]] \o Concat(Tail(ws))

\* a comment written out in full: weather, no question mark, no counter
WeatherQuestion == <<"u6CE2", "u5C11", "u3057", "u9AD8", "u3044", "u6C17", "u914D", "u306A", "u3057", "u6E80", "u6F6E", "u306E", "3", "u6642", "u9803", "u3067", "u3057", "u3087">>        \* 波少し高い気配なし満潮の3時頃でしょ

\* a comment written out in full: a range of numbers with a counter
RangeComment == <<"3", "0", "u301C", "4", "0", "u5339", "u3067", "u3057", "u305F">>                                 \* 30〜40匹でした

\* a comment: its words, followed by the filler when padded; or the comment
\* written out in full, which is made of no word of the vocabulary
Comments == { [words |-> ws, text |-> Concat(ws) \o (IF padded THEN Filler ELSE << >>)] :
                 ws \in WordLists, padded \in BOOLEAN }
            \cup { [words |-> << >>, text |-> WeatherQuestion],
                   [words |-> << >>, text |-> RangeComment] }

InitLocal == /\ RunOff
             /\ input \in Comments
             /\ stage = "raw"
             /\ out = << >>

ApplyNormalize ==
    /\ stage = "raw"
    /\ out' = [normalized |-> normalize_text(input.text)]
    /\ stage' = "normalized"
    /\ UNCHANGED input /\ UNCHANGED run_vars

ApplyExtract ==
    /\ stage = "normalized"
    /\ out' = [normalized |-> out.normalized,
               numbers4   |-> app4_extract_numbers(out.normalized),
               numbers5   |-> app5_extract_numbers(out.normalized),
               count      |-> extract_count(input.text)]
    /\ stage' = "extracted"
    /\ UNCHANGED input /\ UNCHANGED run_vars

ApplyDetect ==
    /\ stage = "extracted"
    /\ out' = [normalized |-> out.normalized,
               numbers4   |-> out.numbers4,
               numbers5   |-> out.numbers5,
               count      |-> out.count,
               negation   |-> detect_negation(out.normalized),
               small4     |-> app4_detect_small_amount(out.normalized),
               small5     |-> app5_detect_small_amount(out.normalized),
               normal4    |-> app4_detect_normal_amount(out.normalized),
               normal5    |-> app5_detect_normal_amount(out.normalized),
               large      |-> detect_large_amount(out.normalized),
               veryLarge  |-> detect_very_large_amount(out.normalized),
               unrelated4 |-> app4_detect_unrelated(out.normalized),
               unrelated5 |-> app5_detect_unrelated(out.normalized)]
    /\ stage' = "detected"
    /\ UNCHANGED input /\ UNCHANGED run_vars

ApplyClassify ==
    /\ stage = "detected"
    /\ out' = [normalized |-> out.normalized,
               numbers4   |-> out.numbers4,
               numbers5   |-> out.numbers5,
               count      |-> out.count,
               negation   |-> out.negation,
               small4     |-> out.small4,
               small5     |-> out.small5,
               normal4    |-> out.normal4,
               normal5    |-> out.normal5,
               large      |-> out.large,
               veryLarge  |-> out.veryLarge,
               unrelated4 |-> out.unrelated4,
               unrelated5 |-> out.unrelated5,
               score5     |-> score_comment(out.normalized),
               label4     |-> app4_improved_simple_classify(input.text),
               label5     |-> app5_improved_simple_classify(input.text)]
    /\ stage' = "classified"
    /\ UNCHANGED input /\ UNCHANGED run_vars

NextLocal == \/ ApplyNormalize
             \/ ApplyExtract
             \/ ApplyDetect
             \/ ApplyClassify

SpecLocal == InitLocal /\ [][NextLocal]_vars

\* The threshold tables applied to a quantity.
InitTable == /\ RunOff
             /\ input \in 0..MaxQuantity
             /\ stage = "quantity"
             /\ out = << >>

ApplyTable4 ==
    /\ stage = "quantity"
    /\ out' = [app4 |-> app4_number_label(input)]
    /\ stage' = "table4"
    /\ UNCHANGED input /\ UNCHANGED run_vars

ApplyTable5 ==
    /\ stage = "table4"
    /\ out' = [app4 |-> out.app4, app5 |-> app5_post_number_label(input)]
    /\ stage' = "table5"
    /\ UNCHANGED input /\ UNCHANGED run_vars

ApplyTable2 ==
    /\ stage = "table5"
    /\ out' = [app4 |-> out.app4, app5 |-> out.app5, app2 |-> app2_count_label(input)]
    /\ stage' = "tables"
    /\ UNCHANGED input /\ UNCHANGED run_vars

NextTable == \/ ApplyTable4
             \/ ApplyTable5
             \/ ApplyTable2

SpecTable == InitTable /\ [][NextTable]_vars

(***************************************************************************)
(* post_process_classification applied to a batch, once and once more.     *)
(***************************************************************************)
\* the quantity, the strong very-large word and the strong negation word a
\* comment of the batch may hold, each absent or present
PostQuantities == { << >>, <<"0", "u5339">>, <<"5", "u5339">>, <<"5", "0", "u5339">> }                  \* -, 0匹, 5匹, 50匹
PostComments ==
    ({ q \o v \o n : q \in PostQuantities,
                     v \in StrongVeryLarge \cup { << >> },
                     n \in StrongNegation \cup { << >> } } \ { << >> })
        \cup { Filler }

\* the records main appends, with one of the six labels
Rows == [date : { ResolvedDate }, comment : PostComments, surge_level : Labels,
         source_url : { base_url }, page_number : { 1 }]

\* the records that stand before and after a record in a longer batch
Companions ==
    { [date |-> ResolvedDate, comment |-> c, surge_level |-> l,
       source_url |-> base_url, page_number |-> 1] :
          c \in { <<"5", "0", "u5339">>, <<"u5927", "u91CF">> }, l \in { FUMEI, NASHI } }
Runs(n) == UNION { [1..k -> Companions] : k \in 0..n }

\* the empty batch, and every record in a batch of up to MaxBatch records
Batches ==
    { << >> } \cup
    UNION { { before \o << r >> \o after :
                 r \in Rows,
                 after \in { a \in Runs(MaxBatch - 1) : Len(before) + Len(a) < MaxBatch } } :
            before \in Runs(MaxBatch - 1) }

InitPost == /\ RunOff
            /\ input \in Batches
            /\ stage = "batch"
            /\ out = << >>

ApplyPostProcess ==
    /\ stage = "batch"
    /\ out' = [once |-> post_process_classification(input)]
    /\ stage' = "processed"
    /\ UNCHANGED input /\ UNCHANGED run_vars

ApplyPostProcessAgain ==
    /\ stage = "processed"
    /\ out' = [once |-> out.once, twice |-> post_process_classification(out.once)]
    /\ stage' = "reprocessed"
    /\ UNCHANGED input /\ UNCHANGED run_vars

NextPost == \/ ApplyPostProcess
            \/ ApplyPostProcessAgain

SpecPost == InitPost /\ [][NextPost]_vars

(***************************************************************************)
(* normalize_text applied to a string, once and once more.                 *)
(***************************************************************************)
\* blank, ideographic space, newline, line tabulation, ５, 匹, …, ？, half-width ｶ and ﾞ
NormalizeAlphabet == { " ", "u3000", "\n", "u000B", "uFF15", "u5339", "u2026", "uFF1F", "uFF76", "uFF9E" }
Strings == UNION { [1..n -> NormalizeAlphabet] : n \in 0..MaxLen }

InitNormalize == /\ RunOff
                 /\ input \in Strings
                 /\ stage = "string"
                 /\ out = << >>

NormalizeOnce ==
    /\ stage = "string"
    /\ out' = [once |-> normalize_text(input)]
    /\ stage' = "normalized once"
    /\ UNCHANGED input /\ UNCHANGED run_vars

NormalizeTwice ==
    /\ stage = "normalized once"
    /\ out' = [once |-> out.once, twice |-> normalize_text(out.once)]
    /\ stage' = "normalized twice"
    /\ UNCHANGED input /\ UNCHANGED run_vars

NextNormalize == \/ NormalizeOnce
                 \/ NormalizeTwice

SpecNormalize == InitNormalize /\ [][NextNormalize]_vars

(***************************************************************************)
(* The early rule-based classifiers (app2.py, app3.py) applied to          *)
(* comments made of short sentences.                                       *)
(***************************************************************************)
EarlyWords == << <<"1", "0", "0", "u5339", "u3044", "u307E", "u3057", "u305F">>,      \* 100匹いました
                 <<"2", "u5339", "u3067", "u3057", "u305F">>,          \* 2匹でした
                 <<"3", "5", "u5339", "u3067", "u3057", "u305F">>,         \* 35匹でした
                 <<"5", "0", "u5339", "u3067", "u3057", "u305F">>,         \* 50匹でした
                 <<"1", "0", "u5339", "u3067", "u3057", "u305F">>,         \* 10匹でした
                 <<"1", "0", "0", "u676F", "u3067", "u3057", "u305F">>,        \* 100杯でした
                 <<"u30BC", "u30ED", "u3067", "u3057", "u305F">>,         \* ゼロでした
                 <<"u305F", "u304F", "u3055", "u3093", "u3044", "u307E", "u3057", "u305F">>,   \* たくさんいました  (keyword of 多い)
                 <<"u4ECA", "u65E5", "u306F", "u5BD2", "u3044">>,         \* 今日は寒い        (no keyword)
                 <<"u3069", "u3046", "u3067", "u3059", "u304B">>,         \* どうですか        (irrelevant)
                 <<"u4E09", " ", "u5339", "u3067", "u3057", "u305F">> >>      \* 三 匹でした       (a count that is no key of num_map)

RECURSIVE Join(_, _)
Join(ps, joint) ==
    IF ps = << >> THEN << >>
    ELSE IF Len(ps) = 1 THEN EarlyWords[ps[1]]
    ELSE EarlyWords[ps[1]] \o joint \o Join(Tail(ps), joint)

EarlyComments ==
    { [parts |-> ps, joint |-> j, text |-> Join(ps, j)] :
         ps \in UNION { [1..n -> 1..Len(EarlyWords)] : n \in 0..MaxWords },
         \* what stands between two sentences: 。 and the newline end one, the blank does not
         j \in { <<"u3002">>, << "\n" >>, << " " >> } }

InitEarly == /\ RunOff
             /\ input \in EarlyComments
             /\ stage = "comment"
             /\ out = << >>

ApplySplit ==
    /\ stage = "comment"
    /\ out' = [sentences |-> split_sentences(input.text),
               count     |-> extract_count(input.text)]
    /\ stage' = "split"
    /\ UNCHANGED input /\ UNCHANGED run_vars

ApplyEarlyClassify ==
    /\ stage = "split"
    /\ out' = [sentences |-> out.sentences,
               count     |-> out.count,
               label2    |-> classify_comment(input.text),
               label3    |-> simple_classify_comment(input.text)]
    /\ stage' = "labelled"
    /\ UNCHANGED input /\ UNCHANGED run_vars

NextEarly == \/ ApplySplit
             \/ ApplyEarlyClassify

SpecEarly == InitEarly /\ [][NextEarly]_vars

(***************************************************************************)
(* classify_with_gemini (app6.py) applied to an answer of the remote model.*)
(***************************************************************************)
GeminiWords == << NASHI, SUKUNAI, FUTSUU, OOI, HIJOUNI_OOI, FUMEI,
                  <<"u3067", "u3059">>,              \* です
                  <<" ">>,
                  <<"u5927", "u91CF">> >>            \* 大量

RECURSIVE GeminiText(_)
GeminiText(ws) == IF ws = << >> THEN << >> ELSE GeminiWords[ws[1]] \o GeminiText(Tail(ws))

\* the call raises, or the answer is a text
GeminiAnswers ==
    { [kind |-> "raise", text |-> << >>] } \cup
    { [kind |-> "text", text |-> GeminiText(ws)] :
         ws \in UNION { [1..n -> 1..Len(GeminiWords)] : n \in 0..MaxWords } }

InitGemini == /\ RunOff
              /\ input \in GeminiAnswers
              /\ stage = "answer"
              /\ out = << >>

ApplyGemini ==
    /\ stage = "answer"
    /\ out' = [label |-> classify_with_gemini(input)]
    /\ stage' = "answered"
    /\ UNCHANGED input /\ UNCHANGED run_vars

NextGemini == ApplyGemini

SpecGemini == InitGemini /\ [][NextGemini]_vars

(***************************************************************************)
(* The properties.                                                         *)
(***************************************************************************)
\* the threshold table of the specification
ThresholdLabel(q) ==
    CASE q = 0           -> NASHI
      [] q \in 1..10     -> SUKUNAI
      [] q \in 11..30    -> FUTSUU
      [] q \in 31..70    -> OOI
      [] q >= 71         -> HIJOUNI_OOI

\* the quantity a word of the vocabulary states, for the words that state one
QuantityWords == { <<"0", "u5339">>, <<"2", "u5339">>, <<"2", "8", "u5339">>, <<"5", "0", "u5339">>, <<"1", "0", "0", "u676F">> }      \* 0匹, 2匹, 28匹, 50匹, 100杯
QuantityOf(w) == int(SubSeq(w, 1, Len(w) - 1)).val

\* the quantities stated by the words of a comment
Quantities(ws) == { QuantityOf(Vocabulary[ws[k]]) :
                      k \in { j \in 1..Len(ws) : Vocabulary[ws[j]] \in QuantityWords } }

SetMax(S) == CHOOSE m \in S : \A x \in S : x <= m

\* an explicit zero cue among the words: ゼロ or 0匹
HasZeroCue(ws) == \E k \in 1..Len(ws) : Vocabulary[ws[k]] \in { ZERO_WORD, <<"0", "u5339">> }
HasPositive(ws) == \E q \in Quantities(ws) : q > 0

Last(s) == s[Len(s)]

\* classify_comment_with_grok has ended, by a return or by an exception
Ended == pc \in { "returned", "raised" }

\* C1: classify_comment_with_grok returns one of the six label strings for
\* every comment and every behaviour of the remote model - never None, never
\* another string, never an exception.
C1_AlwaysOneLabel == Ended => (pc = "returned" /\ ret \in Labels)

\* C2: a comment from which a quantity is extracted is labelled by the
\* threshold label of that quantity, whatever the detector signals are.
C2_NumericPrecedence ==
    (stage = "classified" /\ out.numbers4 # None)
        => out.label4 = ThresholdLabel(max(out.numbers4))

\* C2, amended: a comment that detect_unrelated does not flag and from which
\* a quantity is extracted is labelled by the threshold label of the maximum
\* extracted quantity, whatever negation, small, normal, large and veryLarge
\* are; a comment flagged unrelated is labelled unknown even with a quantity.
C2_NumericPrecedenceUnlessUnrelated ==
    (stage = "classified" /\ out.numbers4 # None)
        => out.label4 = IF out.unrelated4 THEN FUMEI
                        ELSE ThresholdLabel(max(out.numbers4))

\* a comment such as 50匹大量: quantity 50, negation and veryLarge true, labelled many
C2_Witness ==
    /\ stage = "classified"
    /\ out.numbers4 # None /\ max(out.numbers4) = 50
    /\ ~out.unrelated4 /\ out.negation /\ out.veryLarge
    /\ out.label4 = OOI

\* C3: app4.py's improved_simple_classify applies its rules in the order
\* unrelated, quantity, negation, veryLarge, large, normal, small, unknown;
\* the first that matches decides.
C3_DecisionOrder ==
    stage = "classified"
        => out.label4 = IF out.unrelated4 THEN FUMEI
                        ELSE IF out.numbers4 # None THEN ThresholdLabel(max(out.numbers4))
                        ELSE IF out.negation THEN NASHI
                        ELSE IF out.veryLarge THEN HIJOUNI_OOI
                        ELSE IF out.large THEN OOI
                        ELSE IF out.normal4 THEN FUTSUU
                        ELSE IF out.small4 THEN SUKUNAI
                        ELSE FUMEI

\* negation beats an intensity detector: no quantity, negation and veryLarge true
C3_Witness ==
    /\ stage = "classified"
    /\ ~out.unrelated4 /\ out.numbers4 = None
    /\ out.negation /\ out.veryLarge
    /\ out.label4 = NASHI

\* C4: the three quantity-to-label mappings of the code implement the table
\* 0 -> none, 1..10 -> few, 11..30 -> moderate, 31..70 -> many, >= 71 -> veryMany.
C4_SameTable ==
    stage = "tables"
        => /\ out.app4 = ThresholdLabel(input)
           /\ out.app5 = ThresholdLabel(input)
           /\ out.app2 = ThresholdLabel(input)

\* the boundary 70/71: 71 is veryMany in all three
C4_Witness ==
    /\ stage = "tables" /\ input = 71
    /\ out.app4 = HIJOUNI_OOI /\ out.app5 = HIJOUNI_OOI /\ out.app2 = HIJOUNI_OOI

\* C5: of several quantity expressions in a comment the maximum is the
\* quantity used for classification, in whatever order they occur.
C5_MaxQuantityWins ==
    (stage = "classified" /\ Quantities(input.words) # {})
        => /\ out.numbers4 # None
           /\ max(out.numbers4) = SetMax(Quantities(input.words))
           /\ ~out.unrelated4
                 => out.label4 = ThresholdLabel(SetMax(Quantities(input.words)))

\* an early large number and a later small one: 50匹2匹 is labelled many
C5_Witness ==
    /\ stage = "classified"
    /\ Len(input.words) = 2
    /\ Vocabulary[input.words[1]] = <<"5", "0", "u5339">> /\ Vocabulary[input.words[2]] = <<"2", "u5339">>      \* 50匹, 2匹
    /\ max(out.numbers4) = 50
    /\ out.label4 = OOI

\* C6: with an explicit zero cue and another, positive quantity expression in
\* the comment, the quantity the classifier uses is 0.
C6_ZeroCueWins ==
    (stage = "classified" /\ HasZeroCue(input.words) /\ HasPositive(input.words))
        => (out.numbers4 # None /\ max(out.numbers4) = 0)

\* C6, amended: for a text with an explicit zero cue and another, positive
\* quantity expression, extract_count (app2.py) returns 0; extract_numbers and
\* improved_simple_classify (app4.py) use the maximum, the positive number.
C6_ZeroCueInExtractCount ==
    (stage = "classified" /\ HasZeroCue(input.words) /\ HasPositive(input.words))
        => /\ out.count = [kind |-> "int", val |-> 0]
           /\ out.numbers4 # None
           /\ max(out.numbers4) = SetMax(Quantities(input.words))
           /\ max(out.numbers4) > 0

\* ゼロ28匹: extract_count gives 0, extract_numbers gives 28
C6_Witness ==
    /\ stage = "classified"
    /\ Len(input.words) = 2
    /\ Vocabulary[input.words[1]] = ZERO_WORD /\ Vocabulary[input.words[2]] = <<"2", "8", "u5339">>   \* ゼロ, 28匹
    /\ out.count.val = 0
    /\ max(out.numbers4) = 28

\* C7: a comment with an explicit zero cue is labelled none by the local
\* classifier, whatever the other detectors say and whatever other numbers
\* it contains.
C7_ZeroPrecedence ==
    (stage = "classified" /\ HasZeroCue(input.words))
        => (out.label4 = NASHI /\ out.label5 = NASHI)

\* C7, amended: a comment with an explicit zero cue that is not flagged
\* unrelated is labelled none by app4.py when it yields no positive quantity,
\* whatever small, normal, large and veryLarge are, and by app5.py when it
\* yields no quantity of 11 or more and neither large nor veryLarge is true,
\* whatever small and normal are.
C7_ZeroPrecedenceWithoutQuantity ==
    (stage = "classified" /\ HasZeroCue(input.words))
        => /\ (~out.unrelated4 /\ (out.numbers4 = None \/ max(out.numbers4) = 0))
                 => out.label4 = NASHI
           /\ (~out.unrelated5 /\ (out.numbers5 = None \/ max(out.numbers5) <= 10)
                 /\ ~out.veryLarge /\ ~out.large)
                 => out.label5 = NASHI

\* ゼロ with normal vocabulary, long enough not to be unrelated: none in
\* app4.py and in app5.py
C7_Witness ==
    /\ stage = "classified"
    /\ HasZeroCue(input.words)
    /\ ~out.unrelated4 /\ ~out.unrelated5
    /\ out.normal4 /\ out.normal5 /\ out.numbers5 = None
    /\ out.label4 = NASHI /\ out.label5 = NASHI

\* the label improved_simple_classify (app5.py) gives each text of the page
LocalLabel == [t \in PostTexts |-> app5_improved_simple_classify(t)]

\* C8: when every remote attempt fails - the call raises, the response cannot
\* be read or parsed, a key is missing - until the retry bound is exhausted,
\* classify_comment_with_grok returns the label improved_simple_classify
\* computed before the first attempt.
C8_ExhaustedReturnsLocal ==
    (/\ script = "app5" /\ Ended
     /\ Len(tries) = RetryLimit
     /\ \A k \in 1..Len(tries) : tries[k].kind \in Failures)
        => /\ pc = "returned"
           /\ ret = simple_result
           /\ ret = LocalLabel[post.text]

\* C9: app5.py issues at most 3 remote calls per comment; the function ends
\* only after a successful attempt or after the third failure, every failed
\* attempt before the third being followed by one sleep and the next attempt
\* (so n attempts come with n calls and n - 1 sleeps).
C9_RetrySchedule ==
    (script = "app5" /\ OPENAI_AVAILABLE)
        => /\ calls <= 3
           /\ Ended => /\ pc = "returned"
                       /\ calls = Len(tries)
                       /\ sleeps = Len(tries) - 1
                       /\ (Last(tries).kind = "parsed" \/ Len(tries) = 3)

\* C10: a response that parses with both surge_level and reason ends the
\* attempts and its surge_level is returned, whatever the local label is.
C10_RemoteWins ==
    (Ended /\ \E k \in 1..Len(tries) : tries[k].kind = "parsed")
        => /\ pc = "returned"
           /\ Last(tries).kind = "parsed"
           /\ \A k \in 1..(Len(tries) - 1) : tries[k].kind # "parsed"
           /\ ret = Last(tries).surge_level
           /\ calls = Len(tries)

\* the remote label is unknown while the local label is not
C10_Witness ==
    /\ pc = "returned"
    /\ tries # << >> /\ Last(tries).kind = "parsed"
    /\ Last(tries).surge_level = FUMEI
    /\ simple_result \in Labels \ { FUMEI }
    /\ ret = FUMEI

\* the label improved_simple_classify of either script gives each text of the page
LocalLabels == [s \in { "app4", "app5" } |->
                  [t \in PostTexts |-> IF s = "app4" THEN app4_improved_simple_classify(t)
                                       ELSE app5_improved_simple_classify(t)]]

\* every remote attempt made for the comment at hand has failed
AllFailed == tries # << >> /\ \A k \in 1..Len(tries) : tries[k].kind \in Failures

\* C11: whatever way the remote attempts fail (the call raises, the response
\* has no choices to read, the content is not JSON, a key is missing), no
\* exception escapes classify_comment_with_grok: it returns, and what it
\* returns for the record of the comment is the local classifier's label.
C11_FailureNeverFatal ==
    /\ pc # "raised"
    /\ (Ended /\ AllFailed) => (pc = "returned" /\ ret = simple_result)

\* C12: a response whose surge_level is not one of the six label strings is
\* not accepted as the label: the attempt counts as failed, so that such a
\* value is never returned - after it the function goes on to the next
\* attempt or, on the last one, returns the local label.
C12_InvalidLevelRejected ==
    \A k \in 1..Len(tries) :
        (script = "app5" /\ tries[k].kind = "parsed" /\ tries[k].surge_level \notin Labels)
            => /\ pc = "returned" => (Len(tries) = RetryLimit /\ ret = simple_result)
               /\ pc \in { "attempt", "sleep", "returned" }

\* C13: post_process_classification is idempotent: applied to its own result
\* it changes no label.
C13_PostProcessIdempotent ==
    stage = "reprocessed" => out.twice = out.once

\* the signals of the local classifiers are all off: app4.py, app5.py
NoSignal4 == /\ ~out.unrelated4 /\ out.numbers4 = None /\ ~out.negation /\ ~out.small4
             /\ ~out.normal4 /\ ~out.large /\ ~out.veryLarge
NoSignal5 == /\ ~out.unrelated5 /\ out.numbers5 = None /\ ~out.negation /\ ~out.small5
             /\ ~out.normal5 /\ ~out.large /\ ~out.veryLarge

\* C14: a comment that is not unrelated, yields no quantity and sets none of
\* negation, small, normal, large, veryLarge is labelled unknown by app4.py
\* and by app5.py alike.
C14_NoSignalUnknown ==
    stage = "classified"
        => /\ NoSignal4 => out.label4 = FUMEI
           /\ NoSignal5 => out.label5 = FUMEI

\* C14, amended: such a comment is labelled unknown by the priority-mode
\* classifier (app4.py); the accumulation-mode classifier (app5.py) scores it
\* 0 and labels it moderate.
C14_NoSignalUnknownOrModerate ==
    stage = "classified"
        => /\ NoSignal4 => out.label4 = FUMEI
           /\ NoSignal5 => out.label5 = FUTSUU

\* 波 and the filler: one weather cue, long enough, nothing else
C14_Witness ==
    /\ stage = "classified"
    /\ input.words # << >>
    /\ NoSignal4 /\ NoSignal5
    /\ out.label4 = FUMEI /\ out.label5 = FUTSUU

\* the characters of the alphabet that are the full-width or the half-width form
\* of another character
FullWidth == { "u3000", "uFF15", "uFF1F", "uFF76", "uFF9E" }     \* ideographic space, ５, ？, ｶ, ﾞ

\* C15: normalize_text is defined on every string, the empty one and the
\* all-blank ones included; its result has no white space at either end, no
\* two white-space characters in a row and no full-width character that has
\* a half-width form; applied to its own result it changes nothing.
C15_NormalizeIdempotent ==
    /\ stage = "string" => normalize_text(input) \in Seq(STRING)
    /\ stage \in { "normalized once", "normalized twice" }
          => /\ out.once # << >> => (~IsSpace(out.once[1]) /\ ~IsSpace(Last(out.once)))
             /\ \A i \in 1..(Len(out.once) - 1) :
                   ~(IsSpace(out.once[i]) /\ IsSpace(out.once[i + 1]))
             /\ \A i \in 1..Len(out.once) : out.once[i] \notin FullWidth
    /\ stage = "normalized twice" => out.twice = out.once

\* ideographic space, ｶ, ﾞ, line tabulation: normalized to the one character ガ,
\* the voiced mark composed with the kana before it
C15_Witness ==
    /\ stage = "normalized twice"
    /\ input = << "u3000", "uFF76", "uFF9E", "u000B" >>
    /\ out.once = <<"u30AC">>
    /\ out.twice = out.once

\* C16: every record of the batch has a non-empty comment and a resolved
\* date; a post with an empty text or an unresolved date is skipped: it is
\* never classified, locally or remotely, and a record is appended only for
\* the post at hand, after its classification.
C16_OnlyValidPostsEnter ==
    /\ [](/\ \A i \in 1..Len(all_data) :
                all_data[i].comment # << >> /\ all_data[i].date # FUMEI
          /\ (post.text = << >> \/ post.date = FUMEI)
                => (pc \in { "main", "done" } /\ local_calls = 0 /\ calls = 0))
    /\ [][/\ (scraped' # scraped /\ (post'.text = << >> \/ post'.date = FUMEI))
                => (all_data' = all_data /\ pc' = "main" /\ local_calls' = 0)
          /\ Len(all_data') > Len(all_data)
                => /\ local_calls = 1
                   /\ all_data' = Append(all_data, Last(all_data'))
                   /\ Last(all_data').comment = post.text
                   /\ Last(all_data').date = post.date]_vars

\* a record was stored for the first post, the second post has no text and is skipped
C16_Witness ==
    /\ pc = "main" /\ scraped = 2
    /\ Len(all_data) = 1
    /\ post.text = << >> /\ post.date = ResolvedDate

\* C17: when the start-up finds the adapter unavailable (the import fails,
\* the creation of the client or the connection check raises), then for the
\* whole run no remote call is made for any comment and the label of every
\* comment is the label of the local classifier; the flag never changes
\* during the run.
C17_UnavailableStaysLocal ==
    /\ [](startup # "ok"
            => /\ ~OPENAI_AVAILABLE
               /\ calls = 0 /\ tries = << >> /\ sleeps = 0
               /\ pc \notin { "attempt", "sleep", "raised" }
               /\ pc = "returned"
                     => (ret = simple_result /\ ret = LocalLabels[script][post.text])
               /\ \A i \in 1..Len(all_data) :
                     all_data[i].surge_level = LocalLabels[script][all_data[i].comment])
    /\ [][OPENAI_AVAILABLE' = OPENAI_AVAILABLE]_vars

\* C17, amended: when the start-up finds the adapter unavailable, then for
\* the whole run no remote call is made for any comment,
\* classify_comment_with_grok returns the local label for every comment and
\* main stores that label; the flag never changes during the run.  Once the
\* run is over, the labels of app4.py are still the local labels, and each
\* label of app5.py is what the rules of post_process_classification give
\* for the comment from its local label.
C17_UnavailableLocalThenPostProcessed ==
    /\ [](startup # "ok"
            => /\ ~OPENAI_AVAILABLE
               /\ calls = 0 /\ tries = << >> /\ sleeps = 0
               /\ pc \notin { "attempt", "sleep", "raised" }
               /\ pc = "returned"
                     => (ret = simple_result /\ ret = LocalLabels[script][post.text])
               /\ \A i \in 1..Len(all_data) :
                     all_data[i].surge_level =
                        IF pc = "done" /\ script = "app5"
                        THEN post_process_label(all_data[i].comment,
                                                LocalLabels[script][all_data[i].comment])
                        ELSE LocalLabels[script][all_data[i].comment])
    /\ [][OPENAI_AVAILABLE' = OPENAI_AVAILABLE]_vars

\* the connection check raised at start-up; app5.py labelled two comments
\* locally, 50匹ですか? as unknown and 大量ーーー as very many; the pass over the
\* batch has rewritten the first label and left the second
C17_Witness ==
    /\ script = "app5" /\ startup = "check_error" /\ ~OPENAI_AVAILABLE
    /\ pc = "done" /\ Len(all_data) = 2
    /\ all_data[1].comment = <<"5", "0", "u5339", "u3067", "u3059", "u304B", "?">>
    /\ LocalLabels[script][all_data[1].comment] = FUMEI
    /\ all_data[1].surge_level = OOI
    /\ all_data[2].surge_level = HIJOUNI_OOI
    /\ all_data[2].surge_level = LocalLabels[script][all_data[2].comment]
    /\ calls = 0

\* C18: the local label of a comment is computed before the first remote
\* request for it, and exactly once, however many attempts follow.
C18_LocalFirstAndOnce ==
    /\ local_calls <= 1
    /\ (calls > 0 \/ pc \in { "attempt", "sleep", "returned", "raised" })
          => /\ local_calls = 1
             /\ simple_result = LocalLabels[script][post.text]

\* three remote attempts were made, the local classifier ran once
C18_Witness ==
    /\ pc = "returned"
    /\ calls = 3 /\ Len(tries) = 3
    /\ local_calls = 1
    /\ simple_result \in Labels

\* C19: the comment 波少し高い気配なし満潮の3時頃でしょ - 15 characters or more,
\* one weather cue, a question-like ending without a question mark, a
\* negation word, no counter-suffixed number - makes detect_unrelated true,
\* and the local classifier returns unknown for it, not none.
C19_WeatherQuestionUnknown ==
    (stage = "classified" /\ input.text = WeatherQuestion)
        => /\ Len(out.normalized) >= MinLength
           /\ out.unrelated4 /\ out.unrelated5
           /\ out.label4 = FUMEI /\ out.label5 = FUMEI

\* C20: after post_process_classification every record whose comment holds
\* strong negation vocabulary (ゼロ, いない, なし, 居ない) has the label none,
\* whatever its label was on entry and whatever else the comment holds.
C20_StrongNegationForcesNone ==
    stage \in { "processed", "reprocessed" }
        => \A idx \in 1..Len(out.once) :
              ContainsAny(out.once[idx].comment, StrongNegation)
                  => out.once[idx].surge_level = NASHI

\* C21: the two override rules of post_process_classification test the label
\* as the quantity override left it, not the label on entry: a record that
\* enters as unknown with a maximum quantity in 31..70, strong very-large
\* vocabulary and no strong negation vocabulary leaves the pass as many.
C21_OverridesUseCurrentLabel ==
    stage \in { "processed", "reprocessed" }
        => \A idx \in 1..Len(input) :
              (/\ input[idx].surge_level = FUMEI
               /\ app5_extract_numbers(input[idx].comment) # None
               /\ max(app5_extract_numbers(input[idx].comment)) \in 31..70
               /\ ContainsAny(input[idx].comment, StrongVeryLarge)
               /\ ~ContainsAny(input[idx].comment, StrongNegation))
                  => out.once[idx].surge_level = OOI

\* C22: post_process_classification replaces a label by the threshold label
\* of the maximum extracted quantity exactly when the label on entry is
\* unknown and a quantity is extracted: a record without strong vocabulary
\* leaves with that threshold label in this case and with its entry label
\* otherwise, and a record that enters with another label leaves with its
\* entry label or with the label one of the two override rules forces.
C22_QuantityOverrideOnlyForUnknown ==
    stage \in { "processed", "reprocessed" }
        => \A idx \in 1..Len(input) :
              /\ (/\ ~ContainsAny(input[idx].comment, StrongVeryLarge)
                  /\ ~ContainsAny(input[idx].comment, StrongNegation))
                    => out.once[idx].surge_level =
                          IF /\ input[idx].surge_level = FUMEI
                             /\ app5_extract_numbers(input[idx].comment) # None
                          THEN ThresholdLabel(max(app5_extract_numbers(input[idx].comment)))
                          ELSE input[idx].surge_level
              /\ (/\ input[idx].surge_level # FUMEI
                  /\ out.once[idx].surge_level # input[idx].surge_level)
                    => \/ /\ ContainsAny(input[idx].comment, StrongVeryLarge)
                          /\ out.once[idx].surge_level = HIJOUNI_OOI
                       \/ /\ ContainsAny(input[idx].comment, StrongNegation)
                          /\ out.once[idx].surge_level = NASHI

\* 50匹 entered as unknown and left as many; 50匹 entered as few and stayed few
C22_Witness ==
    /\ stage = "processed"
    /\ Len(input) = 2
    /\ input[1].comment = <<"5", "0", "u5339">> /\ input[1].surge_level = FUMEI
    /\ out.once[1].surge_level = OOI
    /\ input[2].comment = <<"5", "0", "u5339">> /\ input[2].surge_level = SUKUNAI
    /\ out.once[2].surge_level = SUKUNAI

\* the words of a comment that hold a question mark, a report in the form of
\* a question, a counter (匹, 杯), a weather cue
HasQuestion(ws) == \E k \in 1..Len(ws) : Vocabulary[ws[k]] \in { <<"?">>, REPORT_QUESTION }
HasReport(ws)   == \E k \in 1..Len(ws) : Vocabulary[ws[k]] = REPORT_QUESTION
HasCounter(ws)  == \E k \in 1..Len(ws) : Vocabulary[ws[k]] \in QuantityWords
Cues(ws)        == Cardinality({ k \in 1..Len(ws) : Vocabulary[ws[k]] = <<"u6CE2">> })

\* C23: a comment with a question marker and no negative report is
\* unrelated; in a comment with both the question rule does not fire, and the
\* comment is unrelated exactly when it is shorter than 15 characters without
\* a squid, scooping or counter word, or when it holds two off-topic cues
\* and no catch word (app5.py counts the cues of one group once, so the
\* weather cues of the vocabulary never make two there).
C23_QuestionUnlessReport ==
    stage \in { "detected", "classified" }
        => /\ (HasQuestion(input.words) /\ ~HasReport(input.words))
                 => (out.unrelated4 /\ out.unrelated5)
           /\ (HasQuestion(input.words) /\ HasReport(input.words))
                 => /\ out.unrelated4 =
                          \/ (Len(input.text) < MinLength /\ ~HasCounter(input.words))
                          \/ (Cues(input.words) >= 2 /\ ~HasCounter(input.words))
                    /\ out.unrelated5 =
                          (Len(input.text) < MinLength /\ ~HasCounter(input.words))

\* 大量いないですか? with the filler holds a question marker and a report: it
\* is not unrelated
C23_Witness ==
    /\ stage = "detected"
    /\ input.text = <<"u5927", "u91CF", "u3044", "u306A", "u3044", "u3067", "u3059", "u304B", "?">> \o Filler
    /\ HasQuestion(input.words) /\ HasReport(input.words)
    /\ ~out.unrelated4 /\ ~out.unrelated5

\* C24: in app5.py the quantity decides the label: a comment that is not
\* unrelated and from which a quantity is extracted is labelled by the
\* threshold label of the maximum quantity, whatever the five lexical
\* detectors find.
C24_QuantityDominates ==
    (stage = "classified" /\ out.numbers5 # None /\ ~out.unrelated5)
        => out.label5 = ThresholdLabel(max(out.numbers5))

\* the points of the maximum quantity: +3 / +2 / +1 / -1 / -3, 0 without one
QuantityPoints(numbers) ==
    IF numbers = None THEN 0
    ELSE CASE max(numbers) >= 71      -> 3
           [] max(numbers) \in 31..70 -> 2
           [] max(numbers) \in 11..30 -> 1
           [] max(numbers) \in 1..10  -> -1
           [] max(numbers) = 0        -> -3

\* the label of a score: <= -2 none, -1 few, 0 or 1 moderate, 2 many, >= 3 veryMany
ScoreLabel(score) ==
    CASE score <= -2       -> NASHI
      [] score = -1        -> SUKUNAI
      [] score \in { 0, 1 } -> FUTSUU
      [] score = 2         -> OOI
      [] score >= 3        -> HIJOUNI_OOI

\* C25: score_comment returns (+3 if veryLarge) + (+2 if large) + (+1 if
\* normal) + (-1 if small) + (-3 if negation) + the points of the maximum
\* quantity; the score lies in -7..9, and improved_simple_classify reads the
\* label of a comment that is not unrelated off the score table.
C25_ScoreAndTable ==
    stage = "classified"
        => /\ out.score5 = (IF out.veryLarge THEN 3 ELSE 0)
                         + (IF out.large THEN 2 ELSE 0)
                         + (IF out.normal5 THEN 1 ELSE 0)
                         - (IF out.small5 THEN 1 ELSE 0)
                         - (IF out.negation THEN 3 ELSE 0)
                         + QuantityPoints(out.numbers5)
           /\ out.score5 \in -7..9
           /\ ~out.unrelated5 => out.label5 = ScoreLabel(out.score5)

\* 0匹 with the filler: small, negation and the quantity 0 make the score -7
C25_Witness ==
    /\ stage = "classified"
    /\ input.text = <<"0", "u5339">> \o Filler
    /\ out.small5 /\ out.negation /\ out.numbers5 = << 0 >>
    /\ out.score5 = -7
    /\ out.label5 = NASHI

\* C26: for a range A〜B extract_numbers of app5.py contributes the single
\* value floor((A+B)/2), neither A nor B: from 30〜40匹でした it extracts the
\* quantity 35 and nothing else.
C26_RangeAveraged ==
    (stage \in { "extracted", "detected", "classified" } /\ input.text = RangeComment)
        => out.numbers5 = << (30 + 40) \div 2 >>

\* the count extract_count finds in each sentence of the vocabulary
WordCount == [w \in 1..Len(EarlyWords) |-> extract_count(EarlyWords[w])]

\* the positions of the sentences in which extract_count finds a count or raises
Counted(ps) == { j \in 1..Len(ps) : WordCount[ps[j]].kind # "None" }

\* C27: classify_comment of app2.py uses the count of the last sentence, in
\* text order, in which extract_count finds one; counts in earlier sentences
\* are ignored even when larger.  (When extract_count raises on that last
\* sentence, classify_comment raises.)
C27_LastSentenceCountWins ==
    (/\ stage = "labelled"
     /\ input.joint \in { <<"u3002">>, << "\n" >> }
     /\ Counted(input.parts) # {}
     /\ \A j \in 1..Len(input.parts) : EarlyWords[input.parts[j]] # <<"u3069", "u3046", "u3067", "u3059", "u304B">>)
        => /\ out.sentences = [j \in 1..Len(input.parts) |-> EarlyWords[input.parts[j]]]
           /\ out.label2 =
                 IF WordCount[input.parts[SetMax(Counted(input.parts))]].kind = "int"
                 THEN ThresholdLabel(WordCount[input.parts[SetMax(Counted(input.parts))]].val)
                 ELSE AttributeError

\* 35匹でした。2匹でした: both sentences hold a count, the comment is labelled few
C27_Witness ==
    /\ stage = "labelled"
    /\ input.text = <<"3", "5", "u5339", "u3067", "u3057", "u305F", "u3002", "2", "u5339", "u3067", "u3057", "u305F">>
    /\ out.sentences = << <<"3", "5", "u5339", "u3067", "u3057", "u305F">>, <<"2", "u5339", "u3067", "u3057", "u305F">> >>
    /\ Counted(input.parts) = { 1, 2 }
    /\ out.label2 = SUKUNAI

\* C28: classify_with_gemini returns the label the remote model named: when
\* the stripped answer is one of the six labels it returns that label; for an
\* answer that names no label, and when the call raises, it returns unknown.
C28_ReturnsNamedLabel ==
    stage = "answered"
        => /\ (input.kind = "text" /\ strip(input.text) \in Labels)
                 => out.label = strip(input.text)
           /\ (input.kind = "text" /\ \A l \in Labels : ~Contains(input.text, l))
                 => out.label = FUMEI
           /\ input.kind = "raise" => out.label = FUMEI

\* the number a sentence begins with
StatedCount(t) == int(SubSeq(t, 1, DigitsEnd(t, 1) - 1)).val

\* C29: in app2.py and app3.py a counter-suffixed count whose last digit is 0
\* is no report of zero: 10匹でした, 50匹でした and 100杯でした are extracted as
\* 10, 50 and 100 and labelled few, many and veryMany.
C29_TrailingZeroIsNoZero ==
    (/\ stage = "labelled"
     /\ input.text \in { <<"1", "0", "u5339", "u3067", "u3057", "u305F">>, <<"5", "0", "u5339", "u3067", "u3057", "u305F">>, <<"1", "0", "0", "u676F", "u3067", "u3057", "u305F">> })
        => /\ out.count = [kind |-> "int", val |-> StatedCount(input.text)]
           /\ out.label2 = ThresholdLabel(StatedCount(input.text))
           /\ out.label3 = ThresholdLabel(StatedCount(input.text))

\* C30: post_process_classification changes nothing but surge_level values:
\* the batch keeps its records and their order, every record keeps its date,
\* comment, source_url and page_number, a label that is written is one of
\* the six labels, and the label a record leaves with is the label the same
\* record leaves with when it is the only record of the batch.
C30_OnlyLabelsChange ==
    stage \in { "processed", "reprocessed" }
        => /\ Len(out.once) = Len(input)
           /\ \A idx \in 1..Len(input) :
                 /\ DOMAIN out.once[idx] = DOMAIN input[idx]
                 /\ out.once[idx].date = input[idx].date
                 /\ out.once[idx].comment = input[idx].comment
                 /\ out.once[idx].source_url = input[idx].source_url
                 /\ out.once[idx].page_number = input[idx].page_number
                 /\ out.once[idx].surge_level # input[idx].surge_level
                       => out.once[idx].surge_level \in Labels
                 /\ out.once[idx].surge_level =
                       post_process_classification(<< input[idx] >>)[1].surge_level

\* a batch of two records whose labels the pass rewrites to different labels
C30_Witness ==
    /\ stage = "processed"
    /\ Len(input) = 2
    /\ input[1].comment = <<"5", "0", "u5339">> /\ input[1].surge_level = FUMEI
    /\ input[2].comment = <<"u5927", "u91CF">> /\ input[2].surge_level = NASHI
    /\ out.once[1].surge_level = OOI
    /\ out.once[2].surge_level = HIJOUNI_OOI
=============================================================================
